---- MODULE Spec2Model ----
(***************************************************************************)
(* Reshape: zero-downtime schema migrations for Postgres.                  *)
(* A model of the migration coordinator (src/lib.rs), the persisted state  *)
(* (src/state.rs), the advisory lock (src/db.rs), the helper function      *)
(* (src/helpers.rs) and the physical effects of the actions                *)
(* (src/migrations/*.rs) on the objects of the public schema.              *)
(***************************************************************************)
EXTENDS Integers, Sequences, FiniteSets, TLC

\* ------------------------------------------------------------------ bounds
\* Number of process deaths in the middle of an operation.
MaxCrashes == 1
\* Number of failures injected by the environment into a statement.
MaxFaults == 1
\* Number of lock(f) calls each session makes in the lock model.
MaxLockCalls == 2
\* the actions of one migration, and the migrations tried one after another,
\* in the schema specification
MaxSchemaActions == 2
MaxSchemaMigrations == 2
\* Rows of the table in the runs on rows and triggers.
MaxRows == 2

\* --------------------------------------------------------------- constants
\* usize::MAX, scaled to the model checker's integers.  It is only compared
\* and decremented, never incremented.
UsizeMax == 2147483647
\* Page size of the reshape.migrations query.
PageLimit == 100
\* prefix_inverse computes 1000 - index.
InverseBase == 1000

\* Marker for an object whose name does not carry a __reshape prefix.
NoPrefix == 0 - 1

\* ---------------------------------------------------------- public schema
\* An object of the public schema.  pm and pa are the two numbers of its
\* __reshape_<pm>_<pa> prefix, or NoPrefix when the name has no such prefix.
Obj(kind, pm, pa, name, on) ==
    [kind |-> kind, pm |-> pm, pa |-> pa, name |-> name, on |-> on]

TableObj(t) == Obj("table", NoPrefix, NoPrefix, t, "")
ColObj(t, c) == Obj("column", NoPrefix, NoPrefix, c, t)
IndexObj(t, i) == Obj("index", NoPrefix, NoPrefix, i, t)

\* MigrationContext::prefix: "__reshape_{:0>4}_{:0>4}" of the two indices.
prefix(m, a) == <<m, a>>
\* A prefix_inverse that counts forward, as prefix does.
prefix_inverse_forward(m, a) == <<m, a>>
\* MigrationContext::prefix_inverse: the same with 1000 - index.
prefix_inverse(m, a) == <<InverseBase - m, InverseBase - a>>

Prefixed(kind, p, name, on) == Obj(kind, p[1], p[2], name, on)

\* What assert_cleaned_up looks for: columns, triggers and routines of the
\* public schema whose name is LIKE '__reshape%'.
IsReshapeObj(o) ==
    /\ o.kind \in {"column", "trigger", "function"}
    /\ o.pm # NoPrefix

\* A statement sent to the database: it fails unless every object of req
\* exists and none of forbid does; it then removes del and every object
\* that belongs to a table of dropOn, and adds add.
Stmt(req, forbid, add, del, dropOn) ==
    [req |-> req, forbid |-> forbid, add |-> add, del |-> del,
     dropOn |-> dropOn]

StmtOk(s, O) == s.req \subseteq O /\ s.forbid \cap O = {}

StmtApply(s, O) ==
    ({o \in O : o.on \notin s.dropOn
                /\ ~(o.kind = "table" /\ o.name \in s.dropOn)} \ s.del)
        \cup s.add

\* The objects after the first k statements of stmts, each of which
\* succeeds.
RECURSIVE ExecK(_, _, _)
ExecK(stmts, O, k) ==
    IF k = 0 THEN O
    ELSE StmtApply(stmts[k], ExecK(stmts, O, k - 1))

\* The number of leading statements of stmts that succeed from O.
RECURSIVE DoneFrom(_, _, _)
DoneFrom(stmts, O, i) ==
    IF i > Len(stmts) THEN Len(stmts)
    ELSE IF StmtOk(stmts[i], O)
         THEN DoneFrom(stmts, StmtApply(stmts[i], O), i + 1)
         ELSE i - 1

Done(stmts, O) == DoneFrom(stmts, O, 1)

\* ----------------------------------------------------------------- actions
\* An action of a migration.  col is the column (or the index) it is about;
\* notnull says whether that column is declared NOT NULL.
Action(kind, table, col, notnull) ==
    [kind |-> kind, table |-> table, col |-> col, notnull |-> notnull]

\* CreateTable creates its table with these columns.
CreateTableColumns == {"id", "name"}

\* --- create_table.rs
CreateTableRun(act, p) ==
    << Stmt({}, {TableObj(act.table)},
            {TableObj(act.table)}
                \cup {ColObj(act.table, c) : c \in CreateTableColumns},
            {}, {}) >>

CreateTableComplete(act, p) ==
    << Stmt({}, {}, {},
            {Prefixed("function", p, "create_table", ""),
             Prefixed("trigger", p, "create_table", act.table)}, {}) >>

CreateTableAbort(act, p) ==
    << Stmt({}, {}, {},
            {Prefixed("function", p, "create_table", ""),
             Prefixed("trigger", p, "create_table", act.table)}, {}),
       Stmt({}, {}, {}, {}, {act.table}) >>

\* --- helpers.rs
\* The function set_up_helpers creates in schema reshape and
\* tear_down_helpers drops: the variable helper tells whether it exists.
helper_function == "is_old_schema"

\* The helper function the body of a trigger function calls, by the name
\* of the trigger: the triggers of alter_column call
\* reshape.is_old_schema(), those of add_column and remove_column call
\* reshape.is_new_schema().
trigger_helper(name) ==
    IF name \in {"alter_column_up_trigger", "alter_column_down_trigger"}
    THEN "is_old_schema"
    ELSE "is_new_schema"

\* --- add_column.rs
AddColumnTemp(act, p) == Prefixed("column", p, "temp_column", act.table)
AddColumnCheck(act, p) ==
    Prefixed("constraint", p, "add_column_not_null", act.table)
AddColumnTriggers(act, p) ==
    {Prefixed("function", p, "add_column", ""),
     Prefixed("trigger", p, "add_column", act.table)}

AddColumnRun(act, p) ==
    << Stmt({TableObj(act.table)}, {}, {AddColumnTemp(act, p)}, {}, {}),
       Stmt({TableObj(act.table)}, {}, AddColumnTriggers(act, p), {}, {}),
       Stmt({TableObj(act.table)}, {}, {}, {}, {}) >>
    \o (IF act.notnull
        THEN << Stmt({TableObj(act.table), AddColumnTemp(act, p)},
                     {AddColumnCheck(act, p)},
                     {AddColumnCheck(act, p)}, {}, {}) >>
        ELSE << >>)

AddColumnComplete(act, p) ==
    << Stmt({}, {}, {}, AddColumnTriggers(act, p), {}) >>
    \o (IF act.notnull
        THEN << Stmt({TableObj(act.table), AddColumnCheck(act, p)},
                     {}, {}, {}, {}),
                Stmt({AddColumnTemp(act, p)}, {}, {}, {}, {}),
                Stmt({AddColumnCheck(act, p)}, {}, {},
                     {AddColumnCheck(act, p)}, {}) >>
        ELSE << >>)
    \o << Stmt({AddColumnTemp(act, p)}, {ColObj(act.table, act.col)},
               {ColObj(act.table, act.col)}, {AddColumnTemp(act, p)}, {}) >>

AddColumnAbort(act, p) ==
    << Stmt({TableObj(act.table)}, {}, {},
            {AddColumnTemp(act, p), AddColumnCheck(act, p)}, {}),
       Stmt({}, {}, {}, AddColumnTriggers(act, p), {}) >>

\* --- alter_column.rs
AlterColumnTemp(act, p) == Prefixed("column", p, "new", act.table)
AlterColumnCheck(act, p) ==
    Prefixed("constraint", p, "alter_column_temporary", act.table)
AlterColumnTriggers(act, p, q) ==
    {Prefixed("function", p, "alter_column_up_trigger", ""),
     Prefixed("trigger", p, "alter_column_up_trigger", act.table),
     Prefixed("function", q, "alter_column_down_trigger", ""),
     Prefixed("trigger", q, "alter_column_down_trigger", act.table)}

AlterColumnRun(act, p, q) ==
    << Stmt({TableObj(act.table), ColObj(act.table, act.col)},
            {}, {AlterColumnTemp(act, p)}, {}, {}),
       Stmt({TableObj(act.table)}, {}, AlterColumnTriggers(act, p, q),
            {}, {}),
       Stmt({TableObj(act.table)}, {}, {}, {}, {}) >>
    \o (IF act.notnull
        THEN << Stmt({TableObj(act.table), AlterColumnTemp(act, p)},
                     {AlterColumnCheck(act, p)},
                     {AlterColumnCheck(act, p)}, {}, {}) >>
        ELSE << >>)

AlterColumnComplete(act, p, q) ==
    << Stmt({}, {}, {}, {AlterColumnCheck(act, p)}, {}),
       Stmt({TableObj(act.table)}, {}, {},
            {ColObj(act.table, act.col)}, {}),
       Stmt({AlterColumnTemp(act, p)}, {ColObj(act.table, act.col)},
            {ColObj(act.table, act.col)}, {AlterColumnTemp(act, p)}, {}),
       Stmt({}, {}, {}, AlterColumnTriggers(act, p, q), {}) >>

AlterColumnAbort(act, p, q) ==
    << Stmt({TableObj(act.table)}, {}, {},
            {AlterColumnTemp(act, p), AlterColumnCheck(act, p)}, {}),
       Stmt({}, {}, {}, AlterColumnTriggers(act, p, q), {}) >>

\* --- remove_column.rs
RemoveColumnTriggers(act, p) ==
    {Prefixed("function", p, "remove_column", ""),
     Prefixed("trigger", p, "remove_column", act.table)}

RemoveColumnRun(act, p) ==
    << Stmt({TableObj(act.table), ColObj(act.table, act.col)}, {},
            RemoveColumnTriggers(act, p), {}, {}) >>

RemoveColumnComplete(act, p) ==
    << Stmt({TableObj(act.table)}, {}, {},
            {ColObj(act.table, act.col)} \cup RemoveColumnTriggers(act, p),
            {}) >>

RemoveColumnAbort(act, p) ==
    << Stmt({}, {}, {}, RemoveColumnTriggers(act, p), {}) >>

\* --- add_index.rs
AddIndexRun(act, p) ==
    << Stmt({TableObj(act.table)}, {IndexObj(act.table, act.col)},
            {IndexObj(act.table, act.col)}, {}, {}) >>

AddIndexComplete(act, p) == << >>

AddIndexAbort(act, p) ==
    << Stmt({}, {}, {}, {IndexObj(act.table, act.col)}, {}) >>

\* --- dispatch on the kind of the action (the Action trait)
RunStmts(act, m, a) ==
    CASE act.kind = "create_table" -> CreateTableRun(act, prefix(m, a))
      [] act.kind = "add_column" -> AddColumnRun(act, prefix(m, a))
      [] act.kind = "alter_column" ->
            AlterColumnRun(act, prefix(m, a), prefix_inverse(m, a))
      [] act.kind = "remove_column" -> RemoveColumnRun(act, prefix(m, a))
      [] act.kind = "add_index" -> AddIndexRun(act, prefix(m, a))

CompleteStmts(act, m, a) ==
    CASE act.kind = "create_table" -> CreateTableComplete(act, prefix(m, a))
      [] act.kind = "add_column" -> AddColumnComplete(act, prefix(m, a))
      [] act.kind = "alter_column" ->
            AlterColumnComplete(act, prefix(m, a), prefix_inverse(m, a))
      [] act.kind = "remove_column" ->
            RemoveColumnComplete(act, prefix(m, a))
      [] act.kind = "add_index" -> AddIndexComplete(act, prefix(m, a))

AbortStmts(act, m, a) ==
    CASE act.kind = "create_table" -> CreateTableAbort(act, prefix(m, a))
      [] act.kind = "add_column" -> AddColumnAbort(act, prefix(m, a))
      [] act.kind = "alter_column" ->
            AlterColumnAbort(act, prefix(m, a), prefix_inverse(m, a))
      [] act.kind = "remove_column" -> RemoveColumnAbort(act, prefix(m, a))
      [] act.kind = "add_index" -> AddIndexAbort(act, prefix(m, a))

\* AddColumn::complete does its work in a transaction that it hands back
\* to the coordinator; the other kinds return None.
ReturnsTransaction(act) == act.kind = "add_column"

\* -------------------------------------------------------------- migrations
Migration(name, actions) == [name |-> name, actions |-> actions]

MigrationA ==
    Migration("A", << Action("create_table", "users", "", FALSE) >>)
MigrationB ==
    Migration("B", << Action("add_column", "users", "first", TRUE),
                      Action("alter_column", "users", "name", FALSE) >>)
\* The migration file of B after an edit: the same name, other actions.
MigrationBEdited ==
    Migration("B", << Action("add_column", "users", "first", TRUE) >>)
MigrationC ==
    Migration("C", << Action("remove_column", "users", "id", FALSE),
                      Action("add_index", "users", "first_idx", FALSE) >>)

\* The lists of migrations a caller passes to migrate.
Desired ==
    { << MigrationA >>,
      << MigrationA, MigrationB >>,
      << MigrationA, MigrationBEdited >>,
      << MigrationA, MigrationB, MigrationC >> }

Names(migs) == [i \in 1..Len(migs) |-> migs[i].name]

\* Vec<Migration> equality: Migration's PartialEq compares names only.
SameMigrations(x, y) == Names(x) = Names(y)

\* The (migration_index, action_index) pairs of the nested enumerate()
\* loops over migrations and their actions, in iteration order.
RECURSIVE PosFrom(_, _, _)
PosFrom(migs, m, a) ==
    IF m >= Len(migs) THEN << >>
    ELSE IF a >= Len(migs[m + 1].actions) THEN PosFrom(migs, m + 1, 0)
         ELSE << <<m, a>> >> \o PosFrom(migs, m, a + 1)

Positions(migs) == PosFrom(migs, 0, 0)

PosSet(migs) == {Positions(migs)[k] : k \in 1..Len(Positions(migs))}

ActionAt(migs, p) == migs[p[1] + 1].actions[p[2] + 1]

\* ------------------------------------------------------------------- state
\* The State enum.  i and j are the two indices of Completing and Aborting.
St(tag, migs, i, j) == [tag |-> tag, migrations |-> migs, i |-> i, j |-> j]

Idle == St("idle", << >>, 0, 0)
applying(migs) == St("applying", migs, 0, 0)
in_progress(migs) == St("in_progress", migs, 0, 0)
completing(migs, i, j) == St("completing", migs, i, j)
aborting(migs, i, j) == St("aborting", migs, i, j)

\* Option<String>::None for the current migration.
None == "none"

\* current_migration: the name with the highest index of reshape.migrations.
current_migration(lg) == IF Len(lg) = 0 THEN None ELSE lg[Len(lg)]

\* A variant that gives the larger of the two.
Min_larger(x, y) == IF x < y THEN y ELSE x

Min(x, y) == IF x < y THEN x ELSE y

\* get_migrations: one page of (index, name) rows of reshape.migrations.
\* rows holds the rows of the table in the order a scan of the table meets
\* them.  With Some(index) the query has WHERE index > $1 ORDER BY index
\* ASC LIMIT 100; with None (<< >>) it has LIMIT 100 only and gives the
\* first rows the scan meets, in that order.
get_migrations(rows, index_larger_than) ==
    IF index_larger_than = << >>
    THEN SubSeq(rows, 1, Min(Len(rows), PageLimit))
    ELSE LET S == {k \in 1..Len(rows) : rows[k][1] > index_larger_than[1]}
             n == Min(Cardinality(S), PageLimit)
             \* the number of rows of S with an index below the one of k
             below(k) == Cardinality({q \in S : rows[q][1] < rows[k][1]})
         IN  [i \in 1..n |-> rows[CHOOSE k \in S : below(k) = i - 1]]

\* remaining_migrations: walks the pages of the log next to the new list;
\* highest is highest_index, consumed the number of new migrations taken
\* from the iterator.
RECURSIVE RemainingFrom(_, _, _, _)
RemainingFrom(rows, new, highest, consumed) ==
    LET page == get_migrations(rows, highest)
        bad == {k \in 1..Len(page) :
                   \/ consumed + k > Len(new)
                   \/ page[k][2] # new[consumed + k].name}
    IN  IF Len(page) = 0
        THEN [ok |-> TRUE, migs |-> SubSeq(new, consumed + 1, Len(new))]
        ELSE IF bad # {}
             THEN [ok |-> FALSE, migs |-> << >>]
             ELSE RemainingFrom(rows, new, <<page[Len(page)][1]>>,
                                consumed + Len(page))

remaining_migrations(rows, new) == RemainingFrom(rows, new, << >>, 0)

\* The rows of reshape.migrations when every INSERT was appended to the
\* table: the scan meets them by ascending index.
Appended(lg) == [k \in 1..Len(lg) |-> <<k, lg[k]>>]

\* A variant of save_migrations that records the last migration only.
save_migrations_last_only(lg, migs) ==
    IF migs = << >> THEN lg ELSE Append(lg, migs[Len(migs)].name)

\* save_migrations: one INSERT per migration, in order.
save_migrations(lg, migs) == lg \o Names(migs)

\* One schema name for every migration.
schema_name_for_migration_shared(name) == <<"migration_", "current">>

\* schema_name_for_migration
schema_name_for_migration(name) == <<"migration_", name>>

\* ---------------------------------------------------------------- outcomes
\* What one call of an action's run, complete or abort can do to the public
\* schema.  Without interference every statement is executed until one
\* fails ("ok" or "err").  The environment can make a statement fail after
\* k statements succeeded ("fault"), and the process can die after k
\* statements ("crash").
Outcomes(stmts, O) ==
    LET d == Done(stmts, O)
        n == Len(stmts)
    IN  {[res |-> IF d = n THEN "ok" ELSE "err", objs |-> ExecK(stmts, O, d)]}
        \cup {[res |-> "fault", objs |-> ExecK(stmts, O, k)] :
                 k \in 0..Min(d, n - 1)}
        \cup {[res |-> "crash", objs |-> ExecK(stmts, O, k)] :
                 k \in 1..Min(d, n - 1)}

\* The same for statements executed inside one transaction: a failure rolls
\* every statement back.
TxOutcomes(stmts, O) ==
    LET d == Done(stmts, O)
        n == Len(stmts)
    IN  {[res |-> IF d = n THEN "ok" ELSE "err",
          objs |-> IF d = n THEN ExecK(stmts, O, d) ELSE O]}
        \cup (IF n > 0 THEN {[res |-> "fault", objs |-> O]} ELSE {})

Failed(o) == o.res \in {"err", "fault"}

\* --------------------------------------------------------------- variables
VARIABLES
    \* the database
    dbState,      \* the row of reshape.data holding the State
    log,          \* the names of reshape.migrations, by index
    namespaces,   \* the schemas migration_<name> that exist
    helper,       \* whether the function reshape.is_old_schema exists
    objs,         \* the objects of the public schema
    \* the process running the coordinator
    pc,           \* where the process is
    mem,          \* self.state.status
    cur,          \* self.state.current_migration
    loc,          \* the local variables of the operation under way
    \* the environment
    crashes,      \* process deaths so far
    faults,       \* injected failures so far
    \* history
    g,            \* what has happened, for stating the properties
    \* the advisory lock (used by the lock specification)
    lockHolder, sess,
    \* one migration's actions on the tables (used by the schema
    \* specification)
    sch,
    \* the rows of a table under one migration (used by the rows
    \* specification)
    rw,
    \* one call of a Conn (used by the retry specification)
    rt,
    \* one call of remaining_migrations (used by the log specification)
    rm,
    \* one call of batch_touch_rows (used by the batch specification)
    bt,
    \* the pair of triggers of an update-form transformation (used by the
    \* trigger pair specification)
    tp,
    \* the prefixes of two MigrationContexts (used by the prefix
    \* specification)
    px

coordVars ==
    <<dbState, log, namespaces, helper, objs, pc, mem, cur, loc,
      crashes, faults, g>>
lockVars == <<lockHolder, sess>>
\* The variables of the specifications of single functions.
unitVars == <<rt, rm, bt, tp, px>>
vars == <<coordVars, lockVars, sch, rw, unitVars>>

loc0 ==
    [rem |-> << >>, ri |-> 0, lastM |-> UsizeMax, lastA |-> UsizeMax,
     result |-> "ok", first |-> FALSE, upM |-> 0, upA |-> 0,
     startM |-> 0, startA |-> 0, caller |-> "user",
     new_schema |-> << >>]

g0 ==
    [ret |-> [op |-> "none", res |-> "none"],
     scen |-> "none", log0 |-> << >>, rem0 |-> << >>,
     callLog |-> << >>, mfail |-> FALSE, ranAfter |-> FALSE,
     ran |-> {}, aborted |-> {}, done |-> {},
     noErr |-> TRUE, skippedC |-> FALSE, skippedA |-> FALSE,
     recover |-> FALSE, rerunFailed |-> FALSE, objs0 |-> {},
     refused |-> "none", resume |-> FALSE,
     from |-> "idle", rejected |-> FALSE,
     removed |-> [from |-> "none", ns |-> {}],
     calls |-> << >>]

\* The database sessions of the lock specification: two processes, each
\* with one connection, none of them inside a call.
Sessions == {1, 2}
sessOut == [s \in Sessions |-> [pc |-> "out", calls |-> 0, fres |-> "none",
                                ret |-> "none"]]

\* ---------------------------------------------------------------- schema.rs
\* The name of a physical column: a plain name, or the name a column gets from
\* the prefix of the action that created it (__reshape_<mmmm>_<aaaa>_...).
ColName(pfx, tag, tbl, name) ==
    [pfx |-> pfx, tag |-> tag, tbl |-> tbl, name |-> name]

PlainName(c) == ColName(<<NoPrefix, NoPrefix>>, "", "", c)

\* Whether a name starts with __reshape_.
IsReshapeName(c) == c.pfx # <<NoPrefix, NoPrefix>>

\* Iterator::position and Iterator::find: the first of the indices S, 0 for
\* None.
First(S) == IF S = {} THEN 0 ELSE CHOOSE i \in S : \A j \in S : i <= j

\* Schema::change_table: the index of the first entry with this current
\* name, after TableChanges::new was pushed at the end when there is none.
change_table(tcs, current_name) ==
    LET i == First({k \in 1..Len(tcs) : tcs[k].current_name = current_name})
    IN  IF i = 0
        THEN [tcs |-> Append(tcs, [current_name |-> current_name,
                                   real_name |-> current_name,
                                   column_changes |-> << >>,
                                   removed |-> FALSE]),
              i |-> Len(tcs) + 1]
        ELSE [tcs |-> tcs, i |-> i]

\* TableChanges::change_column: the same with ColumnChanges::new, whose only
\* backing column is the name itself.
change_column(cc, current_name) ==
    LET i == First({k \in 1..Len(cc) : cc[k].current_name = current_name})
    IN  IF i = 0
        THEN [cc |-> Append(cc, [current_name |-> current_name,
                                 backing_columns |-> << current_name >>,
                                 removed |-> FALSE]),
              i |-> Len(cc) + 1]
        ELSE [cc |-> cc, i |-> i]

\* ColumnChanges::real_name: the last backing column.
real_name(c) == c.backing_columns[Len(c.backing_columns)]

\* Schema::get_table_by_real_name over the tables T of the public schema: the
\* columns of the physical table without the ignored ones, each under its
\* alias when it has one.
get_table_by_real_name(tcs, T, real) ==
    LET f == First({k \in 1..Len(tcs) : tcs[k].real_name = real})
        cc == IF f = 0 THEN << >> ELSE tcs[f].column_changes
        real_columns == UNION {t.cols : t \in {u \in T : u.name = real}}
        ignore_columns ==
            {real_name(cc[i]) : i \in {j \in 1..Len(cc) : cc[j].removed}}
            \cup UNION {{cc[i].backing_columns[k] :
                            k \in 1..(Len(cc[i].backing_columns) - 1)} :
                        i \in 1..Len(cc)}
        \* HashMap::insert: the last entry with this key wins
        aliased(r) == {i \in 1..Len(cc) :
                          ~cc[i].removed /\ real_name(cc[i]) = r}
        alias(r) == LET S == aliased(r)
                    IN  IF S = {} THEN r
                        ELSE cc[CHOOSE i \in S : \A j \in S : j <= i]
                               .current_name
    IN  [name |-> IF f = 0 THEN real ELSE tcs[f].current_name,
         real_name |-> real,
         columns |-> {[name |-> alias(r), real_name |-> r] :
                         r \in real_columns \ ignore_columns}]

\* Schema::get_tables: every physical table whose changes are not marked
\* removed.
get_tables(tcs, T) ==
    {get_table_by_real_name(tcs, T, t.name) :
        t \in {u \in T :
                 LET f == First({k \in 1..Len(tcs) :
                                    tcs[k].real_name = u.name})
                 IN  f = 0 \/ ~tcs[f].removed}}

\* Schema::get_table: by current name, falling back on the name itself.
get_table(tcs, T, table_name) ==
    LET i == First({k \in 1..Len(tcs) : tcs[k].current_name = table_name})
    IN  get_table_by_real_name(
            tcs, T, IF i = 0 THEN table_name ELSE tcs[i].real_name)

\* ------------------------------------------- the actions and the tables
\* One migration's actions, seen from the tables: D.tables is the set of the
\* tables of the public schema with their columns, D.named the indices,
\* foreign keys and enums by name.
\* new_name is changes.name ("" for None) and data_type stands for
\* changes.data_type, nullable and default ("" for None): an alter_column
\* without a new name changes one of them.
SAction(kind, table, column, new_name) ==
    [kind |-> kind, table |-> table, column |-> column, new_name |-> new_name,
     data_type |-> IF kind = "alter_column" /\ new_name = ""
                   THEN "INTEGER" ELSE ""]

\* AlterColumn::can_short_circuit: only the name changes.
can_short_circuit(act) == act.new_name # "" /\ act.data_type = ""

\* temp_column_name of AddColumn and temporary_column_name of AlterColumn.
temp_column_name(act, a) ==
    IF act.kind = "add_column"
    THEN ColName(prefix(0, a), "temp_column", act.table, act.column)
    ELSE ColName(prefix(0, a), "new", "", act.column)

\* One statement of DDL: the database it leaves, and whether it failed.
\* D.deps holds the columns that the views select: without CASCADE such a
\* column, or a table that has one, cannot be dropped.
Exec(D, st) ==
    LET T == D.tables
        has == \E t \in T : t.name = st.table
        tab == CHOOSE t \in T : t.name = st.table
        put(c) == [D EXCEPT !.tables = (T \ {tab}) \cup
                                          {[tab EXCEPT !.cols = c]}]
    IN  CASE st.op = "add_column_if_not_exists" ->
               IF has THEN [ok |-> TRUE, D |-> put(tab.cols \cup {st.a})]
               ELSE [ok |-> FALSE, D |-> D]
          [] st.op = "drop_column_if_exists" ->
               IF has /\ (st.a \notin D.deps \/ st.b = "CASCADE")
               THEN [ok |-> TRUE,
                     D |-> [put(tab.cols \ {st.a}) EXCEPT
                              !.deps = @ \ {st.a}]]
               ELSE [ok |-> FALSE, D |-> D]
          [] st.op = "rename_column" ->
               IF has /\ st.a \in tab.cols /\ st.b \notin tab.cols
               THEN [ok |-> TRUE,
                     D |-> [put((tab.cols \ {st.a}) \cup {st.b}) EXCEPT
                              !.deps = {IF c = st.a THEN st.b ELSE c :
                                           c \in @}]]
               ELSE [ok |-> FALSE, D |-> D]
          [] st.op = "drop_table_if_exists" ->
               IF has /\ D.deps # {} THEN [ok |-> FALSE, D |-> D]
               ELSE [ok |-> TRUE,
                     D |-> [D EXCEPT !.tables =
                                        {t \in T : t.name # st.table}]]
          [] st.op = "rename_table_if_exists" ->
               IF ~has THEN [ok |-> TRUE, D |-> D]
               ELSE IF \E t \in T : t.name = st.b
               THEN [ok |-> FALSE, D |-> D]
               ELSE [ok |-> TRUE,
                     D |-> [D EXCEPT !.tables =
                              (T \ {tab}) \cup {[tab EXCEPT !.name = st.b]}]]
          [] st.op = "drop_constraint_if_exists" ->
               IF has
               THEN [ok |-> TRUE, D |-> [D EXCEPT !.named = @ \ {st.a}]]
               ELSE [ok |-> FALSE, D |-> D]
          [] st.op = "drop_named_if_exists" ->
               [ok |-> TRUE, D |-> [D EXCEPT !.named = @ \ {st.a}]]

\* The statements in order, up to the first that fails.
RECURSIVE ExecAll(_, _)
ExecAll(D, stmts) ==
    IF stmts = << >> THEN [ok |-> TRUE, D |-> D]
    ELSE LET r == Exec(D, Head(stmts))
         IN  IF r.ok THEN ExecAll(r.D, Tail(stmts)) ELSE r

DDL(op, table, a, b) == [op |-> op, table |-> table, a |-> a, b |-> b]

\* A RenameTable that renames the table when it is run.
action_run_renaming_at_once(act, a, tcs, D) ==
    IF act.kind = "rename_table"
    THEN Exec(D, DDL("rename_table_if_exists", act.table, "", act.new_name))
    ELSE [ok |-> TRUE, D |-> D]

\* Action::run of each kind, with the schema changes of the actions before
\* it: whether it returned Ok, and the database it leaves.
action_run(act, a, tcs, D) ==
    LET table == get_table(tcs, D.tables, act.table)
        found == \E c \in table.columns : c.name = PlainName(act.column)
        temp == DDL("add_column_if_not_exists", act.table,
                    temp_column_name(act, a), "")
    IN  CASE act.kind = "add_column" -> Exec(D, temp)
          [] act.kind = "alter_column" ->
               IF can_short_circuit(act) THEN [ok |-> TRUE, D |-> D]
               ELSE IF ~found THEN [ok |-> FALSE, D |-> D]
               ELSE Exec(D, temp)
          [] act.kind = "remove_column" -> [ok |-> found, D |-> D]
          [] act.kind = "remove_foreign_key" ->
               [ok |-> <<"foreign_key", act.column>> \in D.named, D |-> D]
          [] OTHER -> [ok |-> TRUE, D |-> D]

\* Action::update_schema of each kind.
update_schema(act, a, tcs) ==
    LET t == change_table(tcs, act.table)
        c == change_column(t.tcs[t.i].column_changes, PlainName(act.column))
        col(changed) ==
            [t.tcs EXCEPT ![t.i].column_changes =
                              [c.cc EXCEPT ![c.i] = changed]]
        set_column ==
            [c.cc[c.i] EXCEPT !.backing_columns =
                                  Append(@, temp_column_name(act, a))]
        set_name == [c.cc[c.i] EXCEPT !.current_name = PlainName(act.new_name)]
    IN  CASE act.kind = "add_column" -> col(set_column)
          [] act.kind = "alter_column" ->
               IF can_short_circuit(act) THEN col(set_name)
               ELSE col(set_column)
          [] act.kind = "remove_column" ->
               col([c.cc[c.i] EXCEPT !.removed = TRUE])
          [] act.kind = "remove_table" ->
               [t.tcs EXCEPT ![t.i].removed = TRUE]
          [] act.kind = "rename_table" ->
               [t.tcs EXCEPT ![t.i].current_name = act.new_name]
          [] OTHER -> tcs

\* The statements of Action::complete of each kind.
action_complete(act, a) ==
    LET temp == temp_column_name(act, a)
        column == PlainName(act.column)
    IN  CASE act.kind = "add_column" ->
               << DDL("rename_column", act.table, temp, column) >>
          [] act.kind = "alter_column" ->
               IF can_short_circuit(act)
               THEN << DDL("rename_column", act.table, column,
                           PlainName(act.new_name)) >>
               ELSE << DDL("drop_column_if_exists", act.table, column,
                           "CASCADE"),
                       DDL("rename_column", act.table, temp,
                           IF act.new_name # ""
                           THEN PlainName(act.new_name) ELSE column) >>
          [] act.kind = "remove_column" ->
               << DDL("drop_column_if_exists", act.table, column, "") >>
          [] act.kind = "remove_table" ->
               << DDL("drop_table_if_exists", act.table, "", "") >>
          [] act.kind = "rename_table" ->
               << DDL("rename_table_if_exists", act.table, "",
                      act.new_name) >>
          [] act.kind = "remove_foreign_key" ->
               << DDL("drop_constraint_if_exists", act.table,
                      <<"foreign_key", act.column>>, "") >>
          [] act.kind = "remove_index" ->
               << DDL("drop_named_if_exists", "",
                      <<"index", act.column>>, "") >>
          [] act.kind = "remove_enum" ->
               << DDL("drop_named_if_exists", "",
                      <<"enum", act.column>>, "") >>

\* The statements of Action::abort of each kind.
action_abort(act, a) ==
    IF act.kind \in {"add_column", "alter_column"}
    THEN << DDL("drop_column_if_exists", act.table,
                temp_column_name(act, a), "") >>
    ELSE << >>

\* What the new schema is to look like after one more action: the tables by
\* their logical names, each with its logical columns and the physical
\* column behind each.
LogicalAfter(L, act, a) ==
    LET tab == CHOOSE t \in L : t.name = act.table
        column == PlainName(act.column)
        put(c) == (L \ {tab}) \cup {[tab EXCEPT !.columns = c]}
        old == CHOOSE c \in tab.columns : c.name = column
        temp == temp_column_name(act, a)
    IN  CASE act.kind = "add_column" ->
               put(tab.columns \cup {[name |-> column, real_name |-> temp]})
          [] act.kind = "alter_column" ->
               put((tab.columns \ {old}) \cup
                   {[name |-> IF act.new_name # ""
                              THEN PlainName(act.new_name) ELSE old.name,
                     real_name |-> IF can_short_circuit(act)
                                   THEN old.real_name ELSE temp]})
          [] act.kind = "remove_column" -> put(tab.columns \ {old})
          [] act.kind = "remove_table" -> L \ {tab}
          [] act.kind = "rename_table" ->
               (L \ {tab}) \cup {[tab EXCEPT !.name = act.new_name]}
          [] OTHER -> L

\* The actions a migration may hold after the ones before it: they name
\* tables and columns of the new schema as it is at that point.
ValidAction(L, D, act) ==
    LET live == \E t \in L : t.name = act.table
        names == {c.name : c \in UNION {t.columns :
                                t \in {u \in L : u.name = act.table}}}
    IN  CASE act.kind = "add_column" ->
               live /\ PlainName(act.column) \notin names
          [] act.kind = "alter_column" ->
               /\ live
               /\ PlainName(act.column) \in names
               /\ act.new_name # "" =>
                    PlainName(act.new_name) \notin names
          [] act.kind = "remove_column" ->
               live /\ PlainName(act.column) \in names
          [] act.kind = "remove_table" -> live
          [] act.kind = "rename_table" ->
               /\ live
               /\ ~\E t \in L : t.name = act.new_name
               /\ ~\E t \in D.tables : t.name = act.new_name
          [] act.kind = "remove_foreign_key" ->
               live /\ <<"foreign_key", act.column>> \in D.named
          [] act.kind = "remove_index" -> <<"index", act.column>> \in D.named
          [] act.kind = "remove_enum" -> <<"enum", act.column>> \in D.named

\* The actions of the migrations that are tried.
SchemaActions ==
    {SAction("add_column", t, c, "") :
        t \in {"users", "people"}, c \in {"name", "email"}}
    \cup {SAction("alter_column", t, "name", n) :
            t \in {"users", "people"}, n \in {"", "email"}}
    \cup {[SAction("alter_column", "users", "name", "email")
             EXCEPT !.data_type = "INTEGER"]}
    \cup {SAction("remove_column", t, "name", "") : t \in {"users", "people"}}
    \cup {SAction("remove_table", "users", "", ""),
          SAction("rename_table", "users", "", "people"),
          SAction("remove_foreign_key", "users", "users_team_fkey", ""),
          SAction("remove_index", "", "users_name_idx", ""),
          SAction("remove_enum", "", "mood", "")}

\* The public schema before the first of these migrations: one table, an
\* index, a foreign key and an enum, and the view of the current migration
\* on the table.
sch0 ==
    LET cols == {PlainName("id"), PlainName("name")}
        D0 == [tables |-> {[name |-> "users", cols |-> cols]},
               named |-> {<<"index", "users_name_idx">>,
                          <<"foreign_key", "users_team_fkey">>,
                          <<"enum", "mood">>},
               deps |-> cols]
    IN  [phase |-> "idle", D |-> D0, before |-> D0, tcs |-> << >>,
         acts |-> << >>, views |-> {}, logical |-> {}, n |-> 0,
         last |-> "none"]

\* ------------------------------------------------------- rows and triggers
\* The rows of the table users while one migration is applied: what the
\* triggers of the actions do to a row written through the view of the old
\* schema, through the view of the new schema, or by the backfill.

\* SQL NULL. Every other value is the sequence of a written value and the
\* expressions applied to it since.
Null == << >>

\* An up or down expression applied to the column it reads: none given is
\* the column itself (unwrap_or(&self.column)), COALESCE replaces NULL, any
\* other expression is strict.
Ap(fn, x) ==
    CASE fn = "" -> x
      [] fn = "coalesce" -> IF x = Null THEN <<"TEST_DEFAULT_VALUE">> ELSE x
      [] OTHER -> IF x = Null THEN Null ELSE Append(x, fn)

\* reshape.is_old_schema() of set_up_helpers with a current migration, in a
\* session with this search_path. No code sets reshape.is_old_schema.
is_old_schema(search_path) == search_path = "migration_current"

\* reshape.is_new_schema(): the search_path is the schema of the target
\* migration. No code sets reshape.is_new_schema.
is_new_schema(search_path) == search_path = "migration_target"

\* An action on a column of users with its up and down expressions, the
\* column they read, and the nullable it asks for ("none" when absent).
RAction(kind, column, up, down, arg, nullable) ==
    [kind |-> kind, table |-> "users", column |-> column, new_name |-> "",
     up |-> up, down |-> down, arg |-> arg, nullable |-> nullable]

\* The migrations that are tried.
RowScenarios ==
    {<< RAction("add_column", "email", "up1", "", "name", "true") >>,
     << RAction("add_column", "email", "up1", "", "name", "false") >>,
     << RAction("alter_column", "name", "up1", "down1", "name", "none") >>,
     << RAction("alter_column", "name", "up1", "down1", "name", "none"),
        RAction("alter_column", "name", "up2", "down2", "name", "none") >>,
     << RAction("alter_column", "name", "coalesce", "", "name", "false") >>,
     << RAction("alter_column", "code", "", "coalesce", "code", "true") >>,
     << RAction("remove_column", "name", "", "down1", "id", "none") >>}

\* An Action::run that creates no trigger.
action_triggers_none(act, a, table) == {}

\* The triggers that run creates, each named by a prefix: BEFORE INSERT OR
\* UPDATE triggers that set one column of NEW from an expression on
\* another when the session is or is not of the old or the new schema.
action_triggers(act, a, table) ==
    LET real(n) ==
            (CHOOSE c \in table.columns : c.name = PlainName(n)).real_name
        temp == temp_column_name(act, a)
        trigger(pfx, when, set, fn, from) ==
            [pfx |-> pfx, when |-> when, set |-> set, fn |-> fn,
             from |-> from]
    IN  CASE act.kind = "add_column" ->
               IF act.up = "" THEN {}
               ELSE {trigger(prefix(0, a), "not_new", temp, act.up,
                             real(act.arg))}
          [] act.kind = "alter_column" ->
               {trigger(prefix(0, a), "old", temp, act.up,
                        real(act.column)),
                trigger(prefix_inverse(0, a), "not_old", real(act.column),
                        act.down, temp)}
          [] act.kind = "remove_column" ->
               IF act.down = "" THEN {}
               ELSE {trigger(prefix(0, a), "new", PlainName(act.column),
                             act.down, real(act.arg))}

\* The columns that run puts under a NOT VALID CHECK (.. IS NOT NULL): nn
\* holds the columns that are NOT NULL in information_schema.
action_not_null(act, a, table, nn) ==
    LET real == (CHOOSE c \in table.columns :
                    c.name = PlainName(act.column)).real_name
        temp == temp_column_name(act, a)
    IN  CASE act.kind = "add_column" ->
               IF act.nullable = "false" THEN {temp} ELSE {}
          [] act.kind = "alter_column" ->
               IF real \in nn THEN {temp} ELSE {}
          [] OTHER -> {}

\* The row-level BEFORE triggers T on NEW, in the order of their names.
RECURSIVE fire(_, _, _)
fire(T, search_path, new_row) ==
    IF T = {} THEN new_row
    ELSE LET t == CHOOSE u \in T : \A v \in T :
                      \/ u.pfx[1] < v.pfx[1]
                      \/ u.pfx[1] = v.pfx[1] /\ u.pfx[2] <= v.pfx[2]
             on == CASE t.when = "old" -> is_old_schema(search_path)
                     [] t.when = "not_old" -> ~is_old_schema(search_path)
                     [] t.when = "new" -> is_new_schema(search_path)
                     [] t.when = "not_new" -> ~is_new_schema(search_path)
         IN  fire(T \ {t}, search_path,
                  IF on
                  THEN [new_row EXCEPT ![t.set] = Ap(t.fn, new_row[t.from])]
                  ELSE new_row)

\* batch_touch_rows that touches no row.
batch_touch_rows_nothing(rows, T) == rows

\* batch_touch_rows: UPDATE .. SET column = column on every row, in the
\* session of the migration.
batch_touch_rows(rows, T) ==
    [i \in DOMAIN rows |->
        [rows[i] EXCEPT !.vals = fire(T, "public", @)]]

\* A column after the statements of complete or abort: its new name, or
\* Null when it was dropped.
RECURSIVE column_after(_, _)
column_after(c, stmts) ==
    IF stmts = << >> THEN c
    ELSE LET st == Head(stmts)
         IN  CASE st.op = "drop_column_if_exists" /\ st.a = c -> Null
               [] st.op = "rename_column" /\ st.a = c ->
                    column_after(st.b, Tail(stmts))
               [] OTHER -> column_after(c, Tail(stmts))

\* The table users before the migration: name is nullable, code is not;
\* the view of the current migration shows the three columns as they are.
rw0 ==
    LET cols == {PlainName("id"), PlainName("name"), PlainName("code")}
    IN  [phase |-> "idle",
         acts |-> << >>,
         tcs |-> << >>,
         D |-> [tables |-> {[name |-> "users", cols |-> cols]},
                named |-> {}, deps |-> cols],
         nn |-> {PlainName("id"), PlainName("code")},
         chk |-> {},
         trg |-> {},
         oldv |-> {[name |-> c, real_name |-> c] : c \in cols},
         newv |-> {},
         rows |-> << >>,
         last |-> [by |-> "none", inp |-> << >>, ok |-> TRUE]]

\* A database that Reshape has never touched, and a process that has just
\* been constructed on it (new_with_config loads the state).
\* ----------------------------------------------------- the migration log
\* The tables reshape.migrations and the lists of new migrations that
\* remaining_migrations is called with.  The table has n rows, the row of
\* index k named k; a scan meets them by ascending index (h = 0), or with
\* the rows h and h + 1 the other way round: the later INSERT went into a
\* slot that a rolled-back INSERT had left free.  The new list has n + e
\* migrations, the one at position k named k, but for the one at position
\* d, which has another name (d = 0: none).
RemainingInputs ==
    LET T == {t \in {0, 1, 2, 3, PageLimit, PageLimit + 1}
                    \X {0, 1, 2, PageLimit - 1, PageLimit}
                    \X {0 - 1, 0, 1, 2}
                    \X {0, 1, 2, 3, PageLimit, PageLimit + 1,
                        PageLimit + 2} :
                 /\ t[2] < t[1]
                 /\ t[1] + t[3] >= 0
                 /\ t[4] <= t[1] + t[3]}
        rows(n, h) == [k \in 1..n |-> IF h > 0 /\ k = h THEN <<k + 1, k + 1>>
                                      ELSE IF h > 0 /\ k = h + 1 THEN <<h, h>>
                                      ELSE <<k, k>>]
        new(m, d) == [k \in 1..m |-> Migration(IF k = d THEN 0 ELSE k, << >>)]
    IN  {[rows |-> rows(t[1], t[2]), new |-> new(t[1] + t[3], t[4])] :
            t \in T}

\* No call of remaining_migrations has been made.
rm0 == [rows |-> << >>, new |-> << >>, called |-> FALSE,
        out |-> [ok |-> TRUE, migs |-> << >>]]

\* ------------------------------------------------------------------- retry
\* The constants of retry_automatically.
STARTING_WAIT_TIME == 100
MAX_WAIT_TIME == 3200
MAX_ATTEMPTS == 10

\* What one call of f can give: success, a database error with SQLSTATE
\* 55P03 (lock_not_available), a database error with another SQLSTATE
\* (23505 stands for them), or an error that is no database error.
CallResults == {"ok", "55P03", "23505", "io"}

\* A variant of error_retryable that lets every database error be retried.
error_retryable_any(code) == TRUE

\* error_retryable, for a database error.
error_retryable(code) == code = "55P03"

\* A variant of retry_automatically without the limit on the attempts.
retry_automatically_unlimited(r, o, jitter) ==
    LET outs == Append(r.outs, o)
        ret == [r EXCEPT !.pc = "done", !.outs = outs, !.res = Len(outs)]
    IN  IF o = "ok" THEN ret
        ELSE IF o # "io" /\ ~error_retryable(o) THEN ret
        ELSE [r EXCEPT !.pc = "loop", !.outs = outs,
                       !.attempts = @ + 1, !.waits = @ + 1,
                       !.slept = MAX_WAIT_TIME]

\* One iteration of the loop of retry_automatically on the call r: f gives
\* o; jitter is what the random generator draws.  outs is what the calls of
\* f gave so far, waits the number of sleeps, slept the length of the last
\* one in milliseconds, res the index in outs of the result handed to the
\* caller (0 while the loop runs).
retry_automatically(r, o, jitter) ==
    LET outs == Append(r.outs, o)
        attempts == r.attempts + 1
        wait_time == Min(MAX_WAIT_TIME,
                         STARTING_WAIT_TIME * 2 ^ (attempts - 1))
        ret == [r EXCEPT !.pc = "done", !.outs = outs, !.res = Len(outs)]
    IN  IF o = "ok" THEN ret
        ELSE IF o # "io" /\ ~error_retryable(o) THEN ret
        ELSE IF attempts >= MAX_ATTEMPTS
             THEN [ret EXCEPT !.attempts = attempts]
        ELSE [r EXCEPT !.pc = "loop", !.outs = outs,
                       !.attempts = attempts,
                       !.waits = @ + 1,
                       !.slept = wait_time
                                 + (IF jitter = "low" THEN 0
                                    ELSE (wait_time \div 2) - 1)]

\* No call of a Conn has been made.
rt0 == [pc |-> "idle", conn |-> "none", attempts |-> 0, outs |-> << >>,
        waits |-> 0, slept |-> 0, res |-> 0]

\* ------------------------------------------------------- batch_touch_rows
\* BATCH_SIZE of batch_touch_rows.
BATCH_SIZE == 1000

\* (a, b, ..) > (c, d, ..) of SQL: the comparison of two rows, column by
\* column from the left.  A variant that asks every column to be greater
\* comes first.
RowGreater_every_column(x, y) == \A k \in 1..Len(x) : x[k] > y[k]

RowGreater(x, y) ==
    \E k \in 1..Len(x) :
        /\ x[k] > y[k]
        /\ \A j \in 1..(k - 1) : x[j] = y[j]

\* The tables that are tried: n rows with a primary key of one or of two
\* columns (get_primary_key_columns_for_table), in the order of the
\* primary key.  The query does not say in which order the UPDATE returns
\* the rows of a batch, so that LAST_VALUE .. OVER () can be any of them:
\* the last of the batch when the join follows the sorted rows, another
\* one when it follows a scan of the table.  Three orders are tried: the
\* row returned last is the first, the middle or the last of the batch.
TouchInputs ==
    LET key(cols, i) == IF cols = 1 THEN <<i>>
                        ELSE <<((i - 1) \div 3) + 1, ((i - 1) % 3) + 1>>
    IN  {[table |-> [i \in 1..n |-> key(cols, i)], returned_last |-> o] :
            n \in {0, 1, 2, 3, BATCH_SIZE - 1, BATCH_SIZE, BATCH_SIZE + 1,
                   2 * BATCH_SIZE + 1},
            cols \in {1, 2},
            o \in {"first", "middle", "last"}}

\* One iteration of the loop of batch_touch_rows on the table of b: the
\* rows after the cursor, by primary key, at most BATCH_SIZE of them, are
\* updated; the cursor becomes the key of the row returned last; the loop
\* ends when no row was returned.  batch holds the positions of the rows
\* of the batch, touched the rows updated so far and twice those updated
\* by more than one batch.
touch_batch(b) ==
    LET after(i) == \/ b.cursor = << >>
                    \/ RowGreater(b.table[i], b.cursor[1])
        found == SelectSeq([i \in 1..Len(b.table) |-> i], after)
        rows == SubSeq(found, 1, Min(Len(found), BATCH_SIZE))
        updated == {rows[j] : j \in 1..Len(rows)}
        last == CASE b.returned_last = "first" -> rows[1]
                  [] b.returned_last = "middle" -> rows[(Len(rows) + 1) \div 2]
                  [] OTHER -> rows[Len(rows)]
    IN  IF rows = << >>
        THEN [b EXCEPT !.pc = "done", !.batch = << >>,
                       !.batches = @ + 1]
        ELSE [b EXCEPT !.previous = b.cursor,
                       !.cursor = <<b.table[last]>>,
                       !.batch = rows,
                       !.touched = @ \cup updated,
                       !.twice = @ \cup (b.touched \cap updated),
                       !.batches = @ + 1]

\* No call of batch_touch_rows has been made.
bt0 == [pc |-> "idle", table |-> << >>, returned_last |-> "last",
        cursor |-> << >>, previous |-> << >>, batch |-> << >>,
        touched |-> {}, twice |-> {}, batches |-> 0]

\* ---------------------------------------- triggers of the update form
\* The condition of the reverse trigger that AddColumn::run and
\* RemoveColumn::run create on the changed table for an update-form
\* transformation, in a session with this search_path and this value of
\* current_setting('reshape.disable_triggers', TRUE), which is NULL
\* (<< >>) when the session never set it:
\*   [NOT] reshape.is_new_schema()
\*       AND NOT current_setting('reshape.disable_triggers', TRUE) = 'TRUE'
\* computed in the three-valued logic of SQL; IF takes the branch only
\* when the condition is true.
reverse_trigger_fires(kind, search_path, setting) ==
    LET eq == IF setting = << >> THEN "null"
              ELSE IF setting[1] = "TRUE" THEN "t" ELSE "f"
        not(b) == CASE b = "t" -> "f" [] b = "f" -> "t" [] OTHER -> "null"
        and(a, b) == IF a = "f" \/ b = "f" THEN "f"
                     ELSE IF a = "t" /\ b = "t" THEN "t" ELSE "null"
        schema == IF kind = "add_column" THEN ~is_new_schema(search_path)
                  ELSE is_new_schema(search_path)
    IN  and(IF schema THEN "t" ELSE "f", not(eq)) = "t"

\* No update-form transformation has been run.  from_value is the value
\* the expression reads in the row of the other table, column the value
\* of the column of the changed table (Null, or the sequence of one
\* value), last the last write of a client.
tp0 == [kind |-> "none",
        search_path |-> [s \in Sessions |-> "migration_current"],
        setting |-> [s \in Sessions |-> << >>],
        from_value |-> 0, column |-> Null,
        last |-> [op |-> "none", session |-> 1, forward |-> FALSE,
                  reverse |-> FALSE]]

\* ------------------------------------------------------- MigrationContext
\* {:0>4} of an index: its decimal digits, with zeros on the left up to
\* four digits.
RECURSIVE pad4_from(_, _)
pad4_from(n, width) ==
    LET digit(d) == <<"0", "1", "2", "3", "4", "5", "6", "7", "8", "9">>[d + 1]
    IN  IF n < 10 /\ width <= 1 THEN <<digit(n)>>
        ELSE Append(pad4_from(n \div 10, width - 1), digit(n % 10))

\* 1000 - index in usize: the difference when there is one; below zero a
\* debug build panics ("attempt to subtract with overflow") and a release
\* build wraps to 2^64 - (index - 1000), written "2^64 -" before the
\* digits of index - 1000.
inverse_index(index, build) ==
    IF index <= InverseBase
    THEN [res |-> "ok", digits |-> pad4_from(InverseBase - index, 4)]
    ELSE IF build = "debug" THEN [res |-> "panic", digits |-> << >>]
    ELSE [res |-> "wrapped",
          digits |-> <<"2^64 -">> \o pad4_from(index - InverseBase, 1)]

\* The indices that are tried: enumerate() over the remaining migrations
\* and over the actions of a migration gives 0, 1, 2, .. with no upper
\* limit but the length of the list.
ContextIndices == {0, 1, 10, InverseBase - 1, InverseBase, InverseBase + 1,
                   10 * InverseBase + 1}

\* No MigrationContext has been made.
px0 == [called |-> FALSE, build |-> "debug",
        ctx |-> <<<<0, 0>>, <<0, 0>>>>,
        prefix |-> << << >>, << >> >>,
        prefix_inverse |-> <<[res |-> "ok", name |-> << >>],
                             [res |-> "ok", name |-> << >>]>>]

Init ==
    /\ dbState = Idle
    /\ log = << >>
    /\ namespaces = {}
    /\ helper = FALSE
    /\ objs = {}
    /\ pc = "idle"
    /\ mem = Idle
    /\ cur = None
    /\ loc = loc0
    /\ crashes = 0
    /\ faults = 0
    /\ g = g0
    /\ lockHolder = 0
    /\ sess = sessOut
    /\ sch = sch0
    /\ rw = rw0
    /\ rt = rt0
    /\ rm = rm0
    /\ bt = bt0
    /\ tp = tp0
    /\ px = px0

\* ----------------------------------------------------------------- history
\* The history after an operation returned res to its caller.
Returned(h, op, res) ==
    [h EXCEPT !.ret = [op |-> op, res |-> res],
              !.scen = IF res = "err"
                       THEN (IF @ \in {"migrating", "completing"}
                             THEN "failed" ELSE @)
                       ELSE IF op = "migrate" /\ @ = "migrating"
                            THEN "migrated"
                       ELSE IF op = "complete" /\ @ = "completing"
                            THEN "completed"
                       ELSE @,
              !.recover = IF op = "migrate" THEN @ ELSE FALSE,
              !.rejected = FALSE]

\* The history after a call of an action failed.
ActionFailed(h) ==
    [h EXCEPT !.scen = "dirty", !.noErr = FALSE]

\* The history after the process died.
Died(h) ==
    [h EXCEPT !.scen = "dirty", !.recover = FALSE, !.resume = FALSE,
              !.ret = [op |-> "none", res |-> "none"], !.rejected = FALSE,
              !.calls = << >>]

\* The operation the caller invoked: migrate calls complete_migration and
\* abort itself.
OpOf(own) == IF loc.caller = "migrate" THEN "migrate" ELSE own

\* The process dies and a new one is constructed: new_with_config loads the
\* persisted state.
Reload ==
    /\ pc' = "idle"
    /\ mem' = dbState'
    /\ cur' = current_migration(log')
    /\ loc' = loc0

\* ----------------------------------------------------------------- migrate
\* The two early returns of migrate: a migration is in progress already.
AlreadyInProgress_in_progress_only(st) == st.tag = "in_progress"

AlreadyInProgress(st) == st.tag \in {"in_progress", "completing"}

\* migrate, from the load of the state to the save of Applying.
CallMigrate(desired) ==
    /\ pc = "idle"
    /\ LET r == remaining_migrations(Appended(log), desired)
           refuse == \/ ~r.ok
                     \/ /\ dbState.tag = "applying"
                        /\ r.migs # << >>
                        /\ ~SameMigrations(dbState.migrations, r.migs)
           nothing == \/ AlreadyInProgress(dbState)
                      \/ r.ok /\ r.migs = << >>
       IN  /\ cur' = current_migration(log)
           /\ IF nothing \/ refuse
              THEN /\ mem' = dbState
                   /\ g' = [Returned([g EXCEPT !.recover = FALSE,
                                               !.resume = FALSE,
                                               !.mfail = FALSE,
                                               !.calls = << >>], "migrate",
                                     IF nothing THEN "ok" ELSE "err")
                              EXCEPT !.rejected = dbState.tag \in
                                         {"in_progress", "completing"}]
                   /\ UNCHANGED <<dbState, pc, loc>>
              ELSE /\ mem' = applying(r.migs)
                   /\ dbState' = applying(r.migs)
                   /\ pc' = "m_helpers"
                   /\ loc' = [loc0 EXCEPT !.rem = r.migs,
                                          !.first = (cur' = None)]
                   /\ g' = IF dbState.tag = "idle"
                           THEN [g0 EXCEPT !.scen = "migrating",
                                           !.log0 = log,
                                           !.rem0 = Names(r.migs),
                                           !.callLog = log,
                                           !.objs0 = g.objs0]
                           ELSE [g EXCEPT !.scen = "dirty",
                                          !.ret = [op |-> "none",
                                                   res |-> "none"],
                                          !.callLog = log,
                                          !.calls = << >>,
                                          !.mfail = FALSE,
                                          !.ranAfter = FALSE,
                                          !.resume = FALSE,
                                          !.recover =
                                              /\ g.noErr
                                              /\ g.from = "idle"
                                              /\ g.aborted = {}
                                              /\ dbState.tag = "applying",
                                          !.from = dbState.tag,
                                          !.rejected = dbState.tag \in
                                              {"in_progress", "completing"}]
    /\ UNCHANGED <<log, namespaces, helper, objs, crashes, faults>>
    /\ UNCHANGED <<lockVars, sch, rw, unitVars>>

\* set_up_helpers, and the locals of the loop.
MigrateSetUpHelpers ==
    /\ pc = "m_helpers"
    /\ helper' = TRUE
    /\ pc' = IF Positions(loc.rem) = << >> THEN "m_after" ELSE "m_run"
    /\ loc' = [loc EXCEPT !.ri = 1,
                          !.lastM = IF Len(loc.rem) = 0 THEN UsizeMax
                                    ELSE IF Positions(loc.rem) = << >>
                                         THEN Len(loc.rem) - 1
                                         ELSE Positions(loc.rem)[1][1]]
    /\ UNCHANGED <<dbState, log, namespaces, objs, mem, cur, crashes,
                   faults, g>>
    /\ UNCHANGED <<lockVars, sch, rw, unitVars>>

\* Where the nested loops go after the action at index ri of Positions:
\* to the next action when it succeeded; when it failed, break leaves the
\* loop over the actions only, and the loop over the migrations goes on
\* with the next migration.
NextRun(pos, ri, ok) ==
    IF ok THEN ri + 1
    ELSE LET later == {k \in (ri + 1)..Len(pos) : pos[k][1] > pos[ri][1]}
         IN  IF later = {} THEN Len(pos) + 1
             ELSE CHOOSE k \in later : \A k2 \in later : k <= k2

\* A variant that updates the new schema after a failed run too.
UpdateNewSchema_always(new_schema, p, ok) == Append(new_schema, p)

\* action.update_schema on new_schema, when the run of the action at p
\* returned Ok: new_schema is kept as the positions of the actions applied
\* to it.
UpdateNewSchema(new_schema, p, ok) ==
    IF ok THEN Append(new_schema, p) ELSE new_schema

\* One iteration of the loop over the actions: action.run, and
\* action.update_schema after it.  The history keeps the calls made.
MigrateRun ==
    /\ pc = "m_run"
    /\ LET pos == Positions(loc.rem)
           p == pos[loc.ri]
           stmts == RunStmts(ActionAt(loc.rem, p), p[1], p[2])
       IN  \E o \in Outcomes(stmts, objs) :
            LET h == [g EXCEPT !.ran = @ \cup {p}, !.aborted = @ \ {p},
                               !.ranAfter = @ \/ g.mfail,
                               !.calls = Append(@, <<"run", p,
                                                     o.res = "ok">>)]
            IN
             /\ o.res = "fault" => faults < MaxFaults
             /\ o.res = "crash" => crashes < MaxCrashes
             /\ objs' = o.objs
             /\ faults' = IF o.res = "fault" THEN faults + 1 ELSE faults
             /\ IF o.res = "crash"
                THEN /\ crashes' = crashes + 1
                     /\ g' = Died(h)
                     /\ UNCHANGED <<dbState, log>>
                     /\ Reload
                ELSE LET nxt == NextRun(pos, loc.ri, o.res = "ok")
                     IN  /\ loc' = [loc EXCEPT
                                      !.ri = nxt,
                                      !.lastA = p[2],
                                      !.lastM = IF nxt > Len(pos)
                                                THEN Len(loc.rem) - 1
                                                ELSE pos[nxt][1],
                                      !.result = IF o.res = "ok"
                                                 THEN "ok" ELSE "err",
                                      !.new_schema =
                                          UpdateNewSchema(@, p,
                                                          o.res = "ok")]
                         /\ pc' = IF nxt > Len(pos) THEN "m_after"
                                  ELSE "m_run"
                         /\ g' = IF o.res = "ok" THEN h
                                 ELSE [ActionFailed(h) EXCEPT
                                         !.mfail = TRUE,
                                         !.recover = @ /\ o.res = "err",
                                         !.rerunFailed =
                                             @ \/ (g.recover
                                                   /\ o.res = "err")]
                         /\ UNCHANGED <<dbState, mem, cur, crashes>>
    /\ UNCHANGED <<log, namespaces, helper>>
    /\ UNCHANGED <<lockVars, sch, rw, unitVars>>

\* After the loops: abort when the last result is an error, otherwise
\* create_schema_for_migration.
MigrateAfterLoop ==
    /\ pc = "m_after"
    /\ IF loc.result = "err"
       THEN /\ mem' = aborting(loc.rem, loc.lastM + 1, loc.lastA + 1)
            /\ pc' = "a_begin"
            /\ loc' = [loc EXCEPT !.caller = "migrate"]
            /\ UNCHANGED namespaces
       ELSE /\ namespaces' = namespaces \cup
                   {schema_name_for_migration(loc.rem[Len(loc.rem)].name)}
            /\ pc' = "m_save"
            /\ UNCHANGED <<mem, loc>>
    /\ UNCHANGED <<dbState, log, helper, objs, cur, crashes, faults, g>>
    /\ UNCHANGED <<lockVars, sch, rw, unitVars>>

\* The state becomes InProgress; a migration from a blank slate is completed
\* at once.
MigrateSaveInProgress ==
    /\ pc = "m_save"
    /\ mem' = in_progress(loc.rem)
    /\ dbState' = in_progress(loc.rem)
    /\ IF loc.first
       THEN /\ pc' = "c_begin"
            /\ loc' = [loc EXCEPT !.caller = "migrate"]
            /\ g' = g
       ELSE /\ pc' = "idle"
            /\ loc' = loc0
            /\ g' = Returned(g, "migrate", "ok")
    /\ UNCHANGED <<log, namespaces, helper, objs, cur, crashes, faults>>
    /\ UNCHANGED <<lockVars, sch, rw, unitVars>>

\* ---------------------------------------------------------------- complete
NoRet == [op |-> "none", res |-> "none"]

\* A caller invokes complete on this instance.
CallComplete ==
    /\ pc = "idle"
    /\ pc' = "c_begin"
    /\ loc' = loc0
    /\ g' = [g EXCEPT !.ret = NoRet, !.calls = << >>,
                      !.scen = IF @ = "migrated" THEN "completing" ELSE @,
                      !.recover = FALSE, !.rejected = FALSE,
                      !.resume = dbState.tag = "completing" /\ mem = dbState]
    /\ UNCHANGED <<dbState, log, namespaces, helper, objs, mem, cur,
                   crashes, faults>>
    /\ UNCHANGED <<lockVars, sch, rw, unitVars>>

\* complete_migration: the match on the in-memory status.
CompleteBegin ==
    /\ pc = "c_begin"
    /\ IF mem.tag = "in_progress"
       THEN /\ mem' = completing(mem.migrations, 0, 0)
            /\ dbState' = completing(mem.migrations, 0, 0)
            /\ pc' = "c_drop"
            /\ loc' = [loc EXCEPT !.rem = mem.migrations,
                                  !.startM = 0, !.startA = 0]
            /\ g' = [g EXCEPT !.done = {}]
       ELSE IF mem.tag = "completing"
       THEN /\ pc' = "c_drop"
            /\ loc' = [loc EXCEPT !.rem = mem.migrations,
                                  !.startM = mem.i, !.startA = mem.j]
            /\ UNCHANGED <<mem, dbState, g>>
       ELSE /\ pc' = "idle"
            /\ loc' = loc0
            /\ g' = Returned(g, OpOf("complete"),
                             IF mem.tag = "idle" THEN "ok" ELSE "err")
            /\ UNCHANGED <<mem, dbState>>
    /\ UNCHANGED <<log, namespaces, helper, objs, cur, crashes, faults>>
    /\ UNCHANGED <<lockVars, sch, rw, unitVars>>

\* DROP SCHEMA IF EXISTS of the previous migration's schema.
CompleteDropSchema ==
    /\ pc = "c_drop"
    /\ namespaces' = IF cur = None THEN namespaces
                     ELSE namespaces \ {schema_name_for_migration(cur)}
    /\ pc' = "c_loop"
    /\ loc' = [loc EXCEPT !.ri = 1]
    /\ UNCHANGED <<dbState, log, helper, objs, mem, cur, crashes, faults, g>>
    /\ UNCHANGED <<lockVars, sch, rw, unitVars>>

\* The two continue conditions of the loops of complete_migration.
CompleteSkips(p, startM, startA) ==
    \/ p[1] < startM
    \/ p[1] = startM /\ p[2] < startA

\* The indices, from ri on, of the actions the loops still complete.
CompleteTodo(l) ==
    {k \in l.ri..Len(Positions(l.rem)) :
        ~CompleteSkips(Positions(l.rem)[k], l.startM, l.startA)}

\* One iteration: the in-memory state moves past the action, then
\* action.complete; a transaction it returns is committed with the state.
CompleteAction ==
    /\ pc = "c_loop"
    /\ CompleteTodo(loc) # {}
    /\ LET k == CHOOSE x \in CompleteTodo(loc) :
                    \A y \in CompleteTodo(loc) : x <= y
           p == Positions(loc.rem)[k]
           act == ActionAt(loc.rem, p)
           tx == ReturnsTransaction(act)
           stmts == CompleteStmts(act, p[1], p[2])
           next == completing(loc.rem, p[1] + 1, p[2] + 1)
       IN  \E o \in IF tx THEN TxOutcomes(stmts, objs)
                    ELSE Outcomes(stmts, objs) :
            LET h == [g EXCEPT !.calls = Append(@, <<"complete", p,
                                                    o.res = "ok">>)]
            IN
             /\ o.res = "fault" => faults < MaxFaults
             /\ o.res = "crash" => crashes < MaxCrashes
             /\ objs' = o.objs
             /\ faults' = IF o.res = "fault" THEN faults + 1 ELSE faults
             /\ IF o.res = "crash"
                THEN /\ crashes' = crashes + 1
                     /\ g' = Died(h)
                     /\ UNCHANGED <<dbState, log>>
                     /\ Reload
                ELSE /\ mem' = next
                     /\ UNCHANGED <<cur, crashes>>
                     /\ IF o.res = "ok"
                        THEN /\ g' = [h EXCEPT !.done = @ \cup {p}]
                             /\ dbState' = IF tx THEN next ELSE dbState
                             /\ pc' = IF tx THEN "c_loop" ELSE "c_save"
                             /\ loc' = [loc EXCEPT
                                          !.ri = IF tx THEN k + 1 ELSE k]
                        ELSE /\ g' = Returned(
                                       [ActionFailed(h) EXCEPT
                                          !.recover = FALSE,
                                          !.resume = @ /\ o.res = "err"],
                                       OpOf("complete"), "err")
                             /\ pc' = "idle"
                             /\ loc' = loc0
                             /\ UNCHANGED dbState
    /\ UNCHANGED <<log, namespaces, helper>>
    /\ UNCHANGED <<lockVars, sch, rw, unitVars>>

\* The save of the state after an action that returned no transaction.
CompleteSave ==
    /\ pc = "c_save"
    /\ dbState' = mem
    /\ pc' = "c_loop"
    /\ loc' = [loc EXCEPT !.ri = @ + 1]
    /\ UNCHANGED <<log, namespaces, helper, objs, mem, cur, crashes,
                   faults, g>>
    /\ UNCHANGED <<lockVars, sch, rw, unitVars>>

\* tear_down_helpers: DROP FUNCTION reshape.is_old_schema.
CompleteTearDown ==
    /\ pc = "c_loop"
    /\ CompleteTodo(loc) = {}
    /\ IF helper
       THEN /\ helper' = FALSE
            /\ pc' = "c_finish"
            /\ UNCHANGED <<loc, g>>
       ELSE /\ pc' = "idle"
            /\ loc' = loc0
            /\ g' = Returned([g EXCEPT !.noErr = FALSE],
                             OpOf("complete"), "err")
            /\ UNCHANGED helper
    /\ UNCHANGED <<dbState, log, namespaces, objs, mem, cur, crashes, faults>>
    /\ UNCHANGED <<lockVars, sch, rw, unitVars>>

\* State::complete without the append inside the transaction.
StateComplete_state_only(st, lg) ==
    IF st.tag = "completing"
    THEN [ok |-> TRUE, state |-> Idle, log |-> lg]
    ELSE [ok |-> FALSE, state |-> st, log |-> lg]

\* State::complete: in one transaction the migrations are appended to
\* reshape.migrations and the state becomes Idle.
StateComplete(st, lg) ==
    IF st.tag = "completing"
    THEN [ok |-> TRUE, state |-> Idle,
          log |-> save_migrations(lg, st.migrations)]
    ELSE [ok |-> FALSE, state |-> st, log |-> lg]

CompleteFinish ==
    /\ pc = "c_finish"
    /\ LET r == StateComplete(mem, log)
       IN  /\ mem' = r.state
           /\ log' = r.log
           /\ dbState' = IF r.ok THEN r.state ELSE dbState
           /\ cur' = IF r.ok THEN current_migration(r.log) ELSE cur
           /\ g' = Returned([g EXCEPT !.skippedC =
                                 PosSet(loc.rem) \ g.done # {},
                                        !.objs0 = objs,
                                        !.ran = {}, !.aborted = {},
                                        !.done = {}, !.calls = << >>],
                            OpOf("complete"),
                            IF r.ok THEN "ok" ELSE "err")
    /\ pc' = "idle"
    /\ loc' = loc0
    /\ UNCHANGED <<namespaces, helper, objs, crashes, faults>>
    /\ UNCHANGED <<lockVars, sch, rw, unitVars>>

\* ------------------------------------------------------------------- abort
\* A caller invokes abort on this instance.
CallAbort ==
    /\ pc = "idle"
    /\ pc' = "a_begin"
    /\ loc' = loc0
    /\ g' = [g EXCEPT !.ret = NoRet, !.calls = << >>,
                      !.scen = "dirty", !.recover = FALSE,
                      !.resume = FALSE, !.rejected = FALSE,
                      !.refused = IF dbState.tag = "completing"
                                  THEN "called" ELSE "none"]
    /\ UNCHANGED <<dbState, log, namespaces, helper, objs, mem, cur,
                   crashes, faults>>
    /\ UNCHANGED <<lockVars, sch, rw, unitVars>>

\* abort: the match on the in-memory status.
AbortBegin ==
    /\ pc = "a_begin"
    /\ IF mem.tag \in {"in_progress", "applying"}
       THEN /\ mem' = aborting(mem.migrations, 0, 0)
            /\ dbState' = aborting(mem.migrations, 0, 0)
            /\ pc' = "a_drop"
            /\ loc' = [loc EXCEPT !.rem = mem.migrations,
                                  !.upM = UsizeMax, !.upA = UsizeMax]
            /\ g' = [g EXCEPT !.refused = IF @ = "called" THEN "begun"
                                          ELSE @]
       ELSE IF mem.tag = "aborting"
       THEN /\ pc' = "a_drop"
            /\ loc' = [loc EXCEPT !.rem = mem.migrations,
                                  !.upM = mem.i, !.upA = mem.j]
            /\ g' = [g EXCEPT !.refused = IF @ = "called" THEN "begun"
                                          ELSE @]
            /\ UNCHANGED <<mem, dbState>>
       ELSE /\ pc' = "idle"
            /\ loc' = loc0
            /\ g' = Returned([g EXCEPT !.refused =
                                  IF @ = "called"
                                  THEN (IF mem.tag = "idle"
                                        THEN "accepted" ELSE "refused")
                                  ELSE @],
                             "abort",
                             IF mem.tag = "idle" THEN "ok" ELSE "err")
            /\ UNCHANGED <<mem, dbState>>
    /\ UNCHANGED <<log, namespaces, helper, objs, cur, crashes, faults>>
    /\ UNCHANGED <<lockVars, sch, rw, unitVars>>

\* DROP SCHEMA IF EXISTS of the target migration's schema.
AbortDropSchema ==
    /\ pc = "a_drop"
    /\ namespaces' = namespaces \
           {schema_name_for_migration(loc.rem[Len(loc.rem)].name)}
    /\ pc' = "a_loop"
    /\ loc' = [loc EXCEPT !.ri = Len(Positions(loc.rem))]
    /\ UNCHANGED <<dbState, log, helper, objs, mem, cur, crashes, faults, g>>
    /\ UNCHANGED <<lockVars, sch, rw, unitVars>>

\* The two continue conditions of the loops of abort_migrations.
AbortSkips(p, upM, upA) ==
    \/ p[1] >= upM
    \/ p[1] = upM - 1 /\ p[2] >= upA

\* The indices, from ri down, of the actions the loops still abort.
AbortTodo(l) ==
    {k \in 1..l.ri : ~AbortSkips(Positions(l.rem)[k], l.upM, l.upA)}

\* One iteration of abort_migrations: action.abort.
AbortAction ==
    /\ pc = "a_loop"
    /\ AbortTodo(loc) # {}
    /\ LET k == CHOOSE x \in AbortTodo(loc) :
                    \A y \in AbortTodo(loc) : x >= y
           p == Positions(loc.rem)[k]
           stmts == AbortStmts(ActionAt(loc.rem, p), p[1], p[2])
       IN  \E o \in Outcomes(stmts, objs) :
            LET h == [g EXCEPT !.aborted = @ \cup {p},
                               !.calls = Append(@, <<"abort", p,
                                                     o.res = "ok">>)]
            IN
             /\ o.res = "fault" => faults < MaxFaults
             /\ o.res = "crash" => crashes < MaxCrashes
             /\ objs' = o.objs
             /\ faults' = IF o.res = "fault" THEN faults + 1 ELSE faults
             /\ IF o.res = "crash"
                THEN /\ crashes' = crashes + 1
                     /\ g' = Died(h)
                     /\ UNCHANGED <<dbState, log>>
                     /\ Reload
                ELSE /\ UNCHANGED <<mem, cur, crashes>>
                     /\ IF o.res = "ok"
                        THEN /\ g' = h
                             /\ pc' = "a_save"
                             /\ loc' = [loc EXCEPT !.ri = k]
                        ELSE /\ g' = Returned(
                                       [ActionFailed(h) EXCEPT
                                          !.recover = FALSE],
                                       OpOf("abort"), "err")
                             /\ pc' = "idle"
                             /\ loc' = loc0
    /\ UNCHANGED <<dbState, log, namespaces, helper>>
    /\ UNCHANGED <<lockVars, sch, rw, unitVars>>

\* The state after an action was aborted: Aborting with the indices of that
\* action, saved.
AbortSave ==
    /\ pc = "a_save"
    /\ LET p == Positions(loc.rem)[loc.ri]
       IN  /\ mem' = aborting(loc.rem, p[1], p[2])
           /\ dbState' = aborting(loc.rem, p[1], p[2])
    /\ pc' = "a_loop"
    /\ loc' = [loc EXCEPT !.ri = @ - 1]
    /\ UNCHANGED <<log, namespaces, helper, objs, cur, crashes, faults, g>>
    /\ UNCHANGED <<lockVars, sch, rw, unitVars>>

\* tear_down_helpers: DROP FUNCTION reshape.is_old_schema.
AbortTearDown ==
    /\ pc = "a_loop"
    /\ AbortTodo(loc) = {}
    /\ IF helper
       THEN /\ helper' = FALSE
            /\ pc' = "a_finish"
            /\ UNCHANGED <<loc, g>>
       ELSE /\ pc' = "idle"
            /\ loc' = loc0
            /\ g' = Returned([g EXCEPT !.noErr = FALSE],
                             OpOf("abort"), "err")
            /\ UNCHANGED helper
    /\ UNCHANGED <<dbState, log, namespaces, objs, mem, cur, crashes, faults>>
    /\ UNCHANGED <<lockVars, sch, rw, unitVars>>

\* The state becomes Idle and is saved.  An abort that migrate started
\* makes migrate return the error of the failed action.
AbortFinish ==
    /\ pc = "a_finish"
    /\ mem' = Idle
    /\ dbState' = Idle
    /\ pc' = "idle"
    /\ loc' = loc0
    /\ g' = Returned([g EXCEPT !.skippedA = g.ran \ g.aborted # {},
                               !.ran = {}, !.aborted = {}, !.done = {},
                               !.calls = << >>],
                     OpOf("abort"),
                     IF loc.caller = "migrate" THEN "err" ELSE "ok")
    /\ UNCHANGED <<log, namespaces, helper, objs, cur, crashes, faults>>
    /\ UNCHANGED <<lockVars, sch, rw, unitVars>>

\* ------------------------------------------------------------- environment
\* The process dies in the middle of an operation; the next one is
\* constructed on what the database holds.
Crash ==
    /\ pc # "idle"
    /\ crashes < MaxCrashes
    /\ crashes' = crashes + 1
    /\ g' = Died(g)
    /\ UNCHANGED <<dbState, log, namespaces, helper, objs, faults>>
    /\ Reload
    /\ UNCHANGED <<lockVars, sch, rw, unitVars>>

\* A new process is constructed between two operations (each command of the
\* command line is one).
Restart ==
    /\ pc = "idle"
    /\ UNCHANGED <<dbState, log, namespaces, helper, objs, crashes, faults,
                   g>>
    /\ Reload
    /\ UNCHANGED <<lockVars, sch, rw, unitVars>>

Next ==
    \/ \E d \in Desired : CallMigrate(d)
    \/ MigrateSetUpHelpers
    \/ MigrateRun
    \/ MigrateAfterLoop
    \/ MigrateSaveInProgress
    \/ CallComplete
    \/ CompleteBegin
    \/ CompleteDropSchema
    \/ CompleteAction
    \/ CompleteSave
    \/ CompleteTearDown
    \/ CompleteFinish
    \/ CallAbort
    \/ AbortBegin
    \/ AbortDropSchema
    \/ AbortAction
    \/ AbortSave
    \/ AbortTearDown
    \/ AbortFinish
    \/ Crash
    \/ Restart

\* The coordinator and the database; the lock specification's variables
\* stay parked.
Spec == Init /\ [][Next]_vars

\* ------------------------------------------------------------------ remove
\* remove: DROP SCHEMA of the current migration's schema, and of the target
\* migration's schema when the in-memory status is InProgress; DROP TABLE
\* CASCADE of every table of the public schema; State::clear drops the
\* schema reshape, with the state, the log and the helper function in it.
\* The history keeps the persisted state remove started from and the
\* schemas of its current and of its target migration.  The process ends
\* with remove (pc "removed"); the next one is constructed by Crash.
CallRemove ==
    /\ pc = "idle"
    /\ namespaces' =
          (namespaces
             \ (IF cur = None THEN {}
                ELSE {schema_name_for_migration(cur)}))
             \ (IF mem.tag = "in_progress"
                THEN {schema_name_for_migration(
                          mem.migrations[Len(mem.migrations)].name)}
                ELSE {})
    /\ objs' = StmtApply(Stmt({}, {}, {}, {},
                              {o.name : o \in {x \in objs :
                                                  x.kind = "table"}}),
                         objs)
    /\ dbState' = Idle
    /\ log' = << >>
    /\ helper' = FALSE
    /\ mem' = Idle
    /\ cur' = None
    /\ loc' = loc0
    /\ pc' = "removed"
    /\ g' = [g0 EXCEPT
               !.ret = [op |-> "remove", res |-> "ok"],
               !.removed =
                   [from |-> dbState.tag,
                    ns |-> (IF log = << >> THEN {}
                            ELSE {schema_name_for_migration(
                                      current_migration(log))})
                           \cup
                           (IF dbState.tag = "idle" THEN {}
                            ELSE {schema_name_for_migration(
                                      dbState.migrations[
                                          Len(dbState.migrations)].name)})]]
    /\ UNCHANGED <<crashes, faults>>
    /\ UNCHANGED <<lockVars, sch, rw, unitVars>>

NextRemove ==
    \/ Next
    \/ CallRemove

\* The coordinator with remove among its operations.
SpecRemove == Init /\ [][NextRemove]_vars

\* ------------------------------------------------------ second coordinator
\* abort_migrations run to its end by a coordinator whose statements all
\* succeed: the actions from position k down are aborted in reverse order.
\* ok says whether every statement succeeded on the objects it met.
RECURSIVE abort_migrations(_, _, _)
abort_migrations(migs, k, O) ==
    IF k = 0 THEN [ok |-> TRUE, objs |-> O]
    ELSE LET p == Positions(migs)[k]
             stmts == AbortStmts(ActionAt(migs, p), p[1], p[2])
         IN  IF Done(stmts, O) = Len(stmts)
             THEN abort_migrations(migs, k - 1,
                                   ExecK(stmts, O, Len(stmts)))
             ELSE [ok |-> FALSE, objs |-> O]

\* Another process, constructed on the persisted state InProgress, runs
\* abort to its end while this coordinator sits between two operations:
\* the target schema and the actions' objects are dropped, the helper
\* function is dropped, Idle is saved.  Nothing takes the advisory lock, and
\* this coordinator's in-memory state is left as it was loaded.
OtherCoordinatorAborts ==
    /\ pc = "idle"
    /\ dbState.tag = "in_progress"
    /\ mem = dbState
    /\ helper
    /\ LET r == abort_migrations(dbState.migrations,
                                 Len(Positions(dbState.migrations)), objs)
       IN  /\ r.ok
           /\ objs' = r.objs
    /\ namespaces' = namespaces \
           {schema_name_for_migration(
                dbState.migrations[Len(dbState.migrations)].name)}
    /\ helper' = FALSE
    /\ dbState' = Idle
    /\ UNCHANGED <<log, mem, cur, pc, loc, g, crashes, faults>>
    /\ UNCHANGED <<lockVars, sch, rw, unitVars>>

NextTwo ==
    \/ Next
    \/ OtherCoordinatorAborts

\* Two coordinators on one database.
SpecTwo == Init /\ [][NextTwo]_vars

\* ---------------------------------------------------------- advisory lock
\* pg_try_advisory_lock: the lock is taken when no session holds it.
\* acquire_lock turns a refusal into an error.
acquire_lock(holder, s) ==
    IF holder = 0
    THEN [ok |-> TRUE, holder |-> s, err |-> "none"]
    ELSE [ok |-> FALSE, holder |-> holder,
          err |-> "another instance of Reshape is already running"]

\* pg_advisory_unlock
release_lock(holder, s) == IF holder = s THEN 0 ELSE holder

\* The end of lock for another order of its lines, in which an error of f
\* is returned before release_lock is reached.
lock_exit_returning_early(holder, s, fres) ==
    IF fres = "err" THEN [holder |-> holder, ret |-> fres]
    ELSE [holder |-> release_lock(holder, s), ret |-> fres]

\* The end of lock: release_lock, then the result of f, whatever it is.
lock_exit(holder, s, fres) ==
    [holder |-> release_lock(holder, s), ret |-> fres]

\* lock(f), first line: acquire_lock()?.  A refusal is returned at once.
LockAcquire(s) ==
    /\ sess[s].pc = "out"
    /\ sess[s].calls < MaxLockCalls
    /\ LET r == acquire_lock(lockHolder, s)
       IN  /\ lockHolder' = r.holder
           /\ sess' = [sess EXCEPT ![s] =
                  IF r.ok
                  THEN [@ EXCEPT !.pc = "in", !.ret = "none",
                                 !.fres = "none"]
                  ELSE [@ EXCEPT !.ret = r.err, !.fres = "none",
                                 !.calls = @ + 1]]
    /\ UNCHANGED <<coordVars, sch, rw, unitVars>>

\* lock(f), second line: f runs on the connection and returns Ok or Err.
LockRunF(s) ==
    /\ sess[s].pc = "in"
    /\ \E r \in {"ok", "err"} :
          sess' = [sess EXCEPT ![s] = [@ EXCEPT !.pc = "ran", !.fres = r]]
    /\ UNCHANGED <<lockHolder, coordVars, sch, rw, unitVars>>

\* lock(f), last lines: release_lock()?, and result is returned.
LockRelease(s) ==
    /\ sess[s].pc = "ran"
    /\ LET r == lock_exit(lockHolder, s, sess[s].fres)
       IN  /\ lockHolder' = r.holder
           /\ sess' = [sess EXCEPT ![s] =
                  [@ EXCEPT !.pc = "out", !.ret = r.ret, !.calls = @ + 1]]
    /\ UNCHANGED <<coordVars, sch, rw, unitVars>>

\* An operation of the coordinator starts: new_with_config connects and
\* loads the state, and the operation works on that connection.  No line
\* of it acquires the lock.
CoordBegin(s) ==
    /\ sess[s].pc = "out"
    /\ sess[s].calls < MaxLockCalls
    /\ sess' = [sess EXCEPT ![s] = [@ EXCEPT !.pc = "op", !.ret = "none",
                                              !.fres = "none"]]
    /\ UNCHANGED <<lockHolder, coordVars, sch, rw, unitVars>>

\* The operation of the coordinator returns.
CoordEnd(s) ==
    /\ sess[s].pc = "op"
    /\ \E r \in {"ok", "err"} :
          sess' = [sess EXCEPT ![s] = [@ EXCEPT !.pc = "out", !.ret = r,
                                                !.calls = @ + 1]]
    /\ UNCHANGED <<lockHolder, coordVars, sch, rw, unitVars>>

NextLock ==
    \/ \E s \in Sessions : LockAcquire(s)
    \/ \E s \in Sessions : LockRunF(s)
    \/ \E s \in Sessions : LockRelease(s)
    \/ \E s \in Sessions : CoordBegin(s)
    \/ \E s \in Sessions : CoordEnd(s)

\* Two processes on one database, calling lock(f) and the operations of
\* the coordinator.
SpecLock == Init /\ [][NextLock]_vars

\* ------------------------------------------------- the schema of a migration
\* migrate begins: Schema::new(). The new schema starts as the tables are.
SchemaBegin ==
    /\ sch.phase = "idle"
    /\ sch.n < MaxSchemaMigrations
    /\ sch' = [sch EXCEPT
                 !.phase = "applying", !.tcs = << >>, !.acts = << >>,
                 !.views = {}, !.n = @ + 1, !.last = "none",
                 !.logical =
                     {[name |-> t.name, real_name |-> t.name,
                       columns |-> {[name |-> c, real_name |-> c] :
                                       c \in t.cols}] : t \in sch.D.tables}]
    /\ UNCHANGED <<coordVars, lockVars, rw, unitVars>>

\* One iteration of the loops of migrate: Action::run and, when it returned
\* Ok, Action::update_schema.
SchemaRun(act) ==
    /\ sch.phase = "applying"
    /\ Len(sch.acts) < MaxSchemaActions
    /\ ValidAction(sch.logical, sch.D, act)
    /\ LET a == Len(sch.acts)
           r == action_run(act, a, sch.tcs, sch.D)
       IN  sch' = [sch EXCEPT
                     !.D = r.D,
                     !.acts = Append(@, act),
                     !.tcs = IF r.ok THEN update_schema(act, a, @) ELSE @,
                     !.logical = IF r.ok THEN LogicalAfter(@, act, a) ELSE @,
                     !.phase = IF r.ok THEN "applying" ELSE "failed"]
    /\ UNCHANGED <<coordVars, lockVars, rw, unitVars>>

\* create_schema_for_migration: one view for each table of get_tables, then
\* the state becomes InProgress.
SchemaCreateViews ==
    /\ sch.phase = "applying"
    /\ sch.acts # << >>
    /\ sch' = [sch EXCEPT !.phase = "in_progress",
                          !.views = get_tables(sch.tcs, sch.D.tables)]
    /\ UNCHANGED <<coordVars, lockVars, rw, unitVars>>

\* complete_migration: the schema of the current migration is dropped, which
\* leaves the views of the new one, then Action::complete of every action in
\* order; a statement that fails leaves the state Completing.
SchemaComplete ==
    /\ sch.phase = "in_progress"
    /\ LET RECURSIVE stmts(_)
           stmts(i) == IF i > Len(sch.acts) THEN << >>
                       ELSE action_complete(sch.acts[i], i - 1)
                            \o stmts(i + 1)
           shown == {c.real_name : c \in UNION {v.columns : v \in sch.views}}
           r == ExecAll([sch.D EXCEPT !.deps = shown], stmts(1))
       IN  sch' = [sch EXCEPT
                     !.D = r.D,
                     !.before = IF r.ok THEN r.D ELSE @,
                     !.phase = IF r.ok THEN "idle" ELSE "completing",
                     !.last = "complete"]
    /\ UNCHANGED <<coordVars, lockVars, rw, unitVars>>

\* abort, called by the user or by migrate after a run that failed: the
\* schema of the migration is dropped and Action::abort of every action that
\* was run is called in reverse order. An abort that resumes after the
\* process died right after Aborting was persisted calls none: it reads the
\* upper bounds (0, 0) that were persisted.
SchemaAbort(resumed) ==
    /\ sch.phase \in {"applying", "in_progress", "failed"}
    /\ LET RECURSIVE stmts(_)
           stmts(i) == IF i < 1 THEN << >>
                       ELSE action_abort(sch.acts[i], i - 1) \o stmts(i - 1)
           r == ExecAll([sch.D EXCEPT !.deps = sch.before.deps],
                        IF resumed THEN << >> ELSE stmts(Len(sch.acts)))
       IN  sch' = [sch EXCEPT
                     !.D = r.D,
                     !.views = {},
                     !.phase = IF r.ok THEN "idle" ELSE "aborting",
                     !.last = IF resumed THEN "abort_resumed" ELSE "abort"]
    /\ UNCHANGED <<coordVars, lockVars, rw, unitVars>>

NextSchema ==
    \/ SchemaBegin
    \/ \E act \in SchemaActions : SchemaRun(act)
    \/ SchemaCreateViews
    \/ SchemaComplete
    \/ \E resumed \in BOOLEAN : SchemaAbort(resumed)

\* The actions of migrations on the tables and the views they get; the
\* coordinator's and the lock's variables stay parked.
SpecSchema == Init /\ [][NextSchema]_vars

\* ------------------------------------------------------ rows under a migration
\* INSERT (i is one past the last row) or UPDATE of row i through the view
\* of the schema named by search_path, giving a value inp for every column
\* of the view but id: the BEFORE triggers fire, then NOT NULL and the
\* checks decide.
RowsWrite(search_path, i) ==
    LET old == search_path = "migration_current"
        view == IF old THEN rw.oldv ELSE rw.newv
        id == PlainName("id")
        cols == UNION {t.cols : t \in rw.D.tables}
        insert == i = Len(rw.rows) + 1
        base == IF insert
                THEN [c \in cols |-> IF c = id THEN <<"id">> ELSE Null]
                ELSE rw.rows[i].vals
        shown(c) == {v \in view : v.real_name = c /\ v.name # id}
        by == IF rw.phase \in {"idle", "applying"} THEN "pre"
              ELSE IF old THEN "old" ELSE "new"
    IN  /\ IF old THEN rw.phase \in {"idle", "applying", "in_progress",
                                     "aborted"}
           ELSE rw.phase \in {"in_progress", "completed"}
        /\ i \in 1..(Len(rw.rows) + 1)
        /\ i <= MaxRows
        /\ \E inp \in [{v.name : v \in view} \ {id} -> {<<"v">>, Null}] :
              LET written ==
                      [c \in cols |->
                         IF shown(c) = {} THEN base[c]
                         ELSE inp[(CHOOSE v \in shown(c) : TRUE).name]]
                  new_row == fire(rw.trg, search_path, written)
                  ok == \A c \in rw.nn \cup rw.chk : new_row[c] # Null
                  row == [vals |-> new_row, by |-> by, inp |-> inp]
              IN  rw' = [rw EXCEPT
                           !.rows = IF ~ok THEN @
                                    ELSE IF insert THEN Append(@, row)
                                    ELSE [@ EXCEPT ![i] = row],
                           !.last = [by |-> by, inp |-> inp, ok |-> ok]]
        /\ UNCHANGED <<coordVars, lockVars, sch, unitVars>>

\* One iteration of the loops of migrate on the next action of a scenario:
\* Action::run adds the temporary column, creates the triggers, backfills
\* and adds the check; then Action::update_schema.
RowsRun(act) ==
    /\ rw.phase \in {"idle", "applying"}
    /\ \E sc \in RowScenarios :
          /\ Len(rw.acts) < Len(sc)
          /\ SubSeq(sc, 1, Len(rw.acts) + 1) = Append(rw.acts, act)
    /\ LET a == Len(rw.acts)
           table == get_table(rw.tcs, rw.D.tables, act.table)
           r == action_run(act, a, rw.tcs, rw.D)
           cols == UNION {t.cols : t \in r.D.tables}
           T == rw.trg \cup action_triggers(act, a, table)
           widened == [i \in DOMAIN rw.rows |->
                         [rw.rows[i] EXCEPT !.vals =
                            [c \in cols |->
                               IF c \in DOMAIN @ THEN @[c] ELSE Null]]]
           touched == IF \/ act.kind = "alter_column"
                         \/ act.kind = "add_column" /\ act.up # ""
                      THEN batch_touch_rows(widened, T)
                      ELSE widened
           ok == /\ r.ok
                 /\ \A i \in DOMAIN touched : \A c \in rw.nn \cup rw.chk :
                       touched[i].vals[c] # Null
       IN  rw' = IF ok
                 THEN [rw EXCEPT
                         !.phase = "applying",
                         !.acts = Append(@, act),
                         !.D = r.D,
                         !.trg = T,
                         !.rows = touched,
                         !.chk = @ \cup action_not_null(act, a, table, rw.nn),
                         !.tcs = update_schema(act, a, @),
                         !.last = [by |-> "none", inp |-> << >>, ok |-> TRUE]]
                 ELSE [rw EXCEPT !.phase = "failed",
                                 !.acts = Append(@, act),
                                 !.D = r.D, !.trg = T, !.rows = widened]
    /\ UNCHANGED <<coordVars, lockVars, sch, unitVars>>

\* create_schema_for_migration once every action of the scenario has run.
RowsCreateViews ==
    /\ rw.phase = "applying"
    /\ rw.acts \in RowScenarios
    /\ rw' = [rw EXCEPT
                !.phase = "in_progress",
                !.newv = get_table(rw.tcs, rw.D.tables, "users").columns,
                !.last = [by |-> "none", inp |-> << >>, ok |-> TRUE]]
    /\ UNCHANGED <<coordVars, lockVars, sch, unitVars>>

\* complete_migration (complete is TRUE) or abort: the statements of every
\* action, in order or in reverse order, with the triggers dropped; complete
\* first validates each check and makes its column NOT NULL.
RowsFinish(complete) ==
    /\ rw.phase = "in_progress"
    /\ LET RECURSIVE stmts(_)
           stmts(i) ==
               IF i > Len(rw.acts) THEN << >>
               ELSE IF complete
               THEN action_complete(rw.acts[i], i - 1) \o stmts(i + 1)
               ELSE stmts(i + 1) \o action_abort(rw.acts[i], i - 1)
           views == IF complete THEN rw.newv ELSE rw.oldv
           r == ExecAll([rw.D EXCEPT !.deps = {v.real_name : v \in views}],
                        stmts(1))
           after(c) == column_after(c, stmts(1))
           valid == \A i \in DOMAIN rw.rows : \A c \in rw.chk :
                       rw.rows[i].vals[c] # Null
           kept(S) == {after(c) : c \in S} \ {Null}
           view(V) == {[v EXCEPT !.real_name = after(@)] :
                          v \in {u \in V : after(u.real_name) # Null}}
       IN  rw' = IF complete /\ ~(valid /\ r.ok)
                 THEN [rw EXCEPT !.phase = "completing"]
                 ELSE [rw EXCEPT
                         !.phase = IF complete THEN "completed"
                                   ELSE "aborted",
                         !.D = r.D,
                         !.trg = {},
                         !.nn = IF complete THEN kept(@ \cup rw.chk)
                                ELSE kept(@),
                         !.chk = {},
                         !.oldv = IF complete THEN {} ELSE view(@),
                         !.newv = IF complete THEN view(@) ELSE {},
                         !.rows =
                             [i \in DOMAIN @ |->
                                [@[i] EXCEPT !.vals =
                                   [d \in kept(DOMAIN @) |->
                                      @[CHOOSE c \in DOMAIN @ :
                                            after(c) = d]]]],
                         !.last = [by |-> "none", inp |-> << >>, ok |-> TRUE]]
    /\ UNCHANGED <<coordVars, lockVars, sch, unitVars>>

NextRows ==
    \/ \E search_path \in {"migration_current", "migration_target"},
          i \in 1..MaxRows : RowsWrite(search_path, i)
    \/ \E sc \in RowScenarios : \E k \in 1..Len(sc) : RowsRun(sc[k])
    \/ RowsCreateViews
    \/ \E complete \in BOOLEAN : RowsFinish(complete)

\* Rows written through the two schemas while one migration is applied,
\* completed or aborted; the other variables stay parked.
SpecRows == Init /\ [][NextRows]_vars

\* ------------------------------------------------------- retry (actions)
\* DbConn::run, query and query_with_params: the call goes through
\* retry_automatically; one step is one iteration of its loop, the sleep
\* included.
DbConnRun ==
    \E o \in CallResults, jitter \in {"low", "high"} :
        /\ rt' = retry_automatically(
                     IF rt.pc = "loop" THEN rt
                     ELSE [rt0 EXCEPT !.conn = "bare"], o, jitter)
        /\ UNCHANGED <<coordVars, lockVars, sch, rw, rm, bt, tp, px>>

\* Transaction::run, query and query_with_params: the statement is executed
\* once and its result returned.
TransactionRun ==
    /\ rt.pc # "loop"
    /\ \E o \in CallResults :
          rt' = [rt0 EXCEPT !.pc = "done", !.conn = "tx", !.outs = <<o>>,
                            !.res = 1]
    /\ UNCHANGED <<coordVars, lockVars, sch, rw, rm, bt, tp, px>>

NextRetry ==
    \/ DbConnRun
    \/ TransactionRun

\* The calls of one connection, one after the other.
SpecRetry == Init /\ [][NextRetry]_vars

\* ----------------------------------------------- migration log (actions)
\* remaining_migrations on one table and one new list.
CallRemainingMigrations ==
    /\ ~rm.called
    /\ \E x \in RemainingInputs :
          rm' = [rows |-> x.rows, new |-> x.new, called |-> TRUE,
                 out |-> remaining_migrations(x.rows, x.new)]
    /\ UNCHANGED <<coordVars, lockVars, sch, rw, rt, bt, tp, px>>

NextRemaining == CallRemainingMigrations

\* One call of remaining_migrations.
SpecRemaining == Init /\ [][NextRemaining]_vars

\* ------------------------------------------- batch_touch_rows (actions)
\* batch_touch_rows is called on a table: the cursor starts as None.
CallBatchTouchRows ==
    /\ bt.pc \in {"idle", "done"}
    /\ \E x \in TouchInputs :
          bt' = [bt0 EXCEPT !.pc = "loop", !.table = x.table,
                            !.returned_last = x.returned_last]
    /\ UNCHANGED <<coordVars, lockVars, sch, rw, rt, rm, tp, px>>

\* One iteration of the loop.
BatchTouchLoop ==
    /\ bt.pc = "loop"
    /\ bt' = touch_batch(bt)
    /\ UNCHANGED <<coordVars, lockVars, sch, rw, rt, rm, tp, px>>

NextTouch ==
    \/ CallBatchTouchRows
    \/ BatchTouchLoop

\* The calls of batch_touch_rows, one after the other.
SpecTouch == Init /\ [][NextTouch]_vars

\* ------------------------------ triggers of the update form (actions)
\* AddColumn::run or RemoveColumn::run with an update-form transformation:
\* the trigger on the other table and the reverse trigger on the changed
\* table are created.
RunUpdateForm ==
    /\ tp.kind = "none"
    /\ \E kind \in {"add_column", "remove_column"} :
          tp' = [tp0 EXCEPT !.kind = kind]
    /\ UNCHANGED <<coordVars, lockVars, sch, rw, rt, rm, bt, px>>

\* A client opens a session on one of the two schemas: the session has
\* never set reshape.disable_triggers.
SessionConnect ==
    /\ tp.kind # "none"
    /\ \E s \in Sessions,
          path \in {"migration_current", "migration_target"} :
          tp' = [tp EXCEPT !.search_path[s] = path,
                           !.setting[s] = << >>]
    /\ UNCHANGED <<coordVars, lockVars, sch, rw, rt, rm, bt, px>>

\* A client writes v to the row of the other table.  Its BEFORE trigger,
\* in the sessions of the schema it is for, sets
\* reshape.disable_triggers to 'TRUE' for the transaction, updates the
\* column of the changed table to the value computed from NEW, which
\* fires the reverse trigger, and sets reshape.disable_triggers to ''.
\* A reverse trigger that computes reads the row of the other table,
\* which the write has not reached yet.
WriteFromTable ==
    /\ tp.kind # "none"
    /\ \E s \in Sessions, v \in {1, 2} :
          LET forward == IF tp.kind = "add_column"
                         THEN ~is_new_schema(tp.search_path[s])
                         ELSE is_new_schema(tp.search_path[s])
              reverse == /\ forward
                         /\ reverse_trigger_fires(tp.kind,
                                tp.search_path[s], <<"TRUE">>)
          IN  tp' = [tp EXCEPT
                       !.from_value = v,
                       !.column = IF ~forward THEN @
                                  ELSE IF reverse THEN <<tp.from_value>>
                                  ELSE <<v>>,
                       !.setting[s] = IF forward THEN <<"">> ELSE @,
                       !.last = [op |-> "from", session |-> s,
                                 forward |-> forward,
                                 reverse |-> reverse]]
    /\ UNCHANGED <<coordVars, lockVars, sch, rw, rt, rm, bt, px>>

\* A client writes a row of the changed table through the view of its
\* schema, which does not have the column when the schema is the one the
\* reverse trigger is for: the column is what the reverse trigger
\* computes, or NULL.
WriteChangedTable ==
    /\ tp.kind # "none"
    /\ \E s \in Sessions :
          LET reverse == reverse_trigger_fires(tp.kind, tp.search_path[s],
                                               tp.setting[s])
          IN  tp' = [tp EXCEPT
                       !.column = IF reverse THEN <<tp.from_value>>
                                  ELSE Null,
                       !.last = [op |-> "changed", session |-> s,
                                 forward |-> FALSE,
                                 reverse |-> reverse]]
    /\ UNCHANGED <<coordVars, lockVars, sch, rw, rt, rm, bt, px>>

NextTriggers ==
    \/ RunUpdateForm
    \/ SessionConnect
    \/ WriteFromTable
    \/ WriteChangedTable

\* The writes of the clients while the two triggers exist.
SpecTriggers == Init /\ [][NextTriggers]_vars

\* ------------------------------------------- MigrationContext (actions)
\* MigrationContext::new for two actions, then prefix and prefix_inverse
\* of each: the two numbers, formatted, with _ between them.
CallPrefixes ==
    \E c1 \in ContextIndices \X ContextIndices,
       c2 \in ContextIndices \X ContextIndices,
       build \in {"debug", "release"} :
        LET fwd(c) == pad4_from(c[1], 4) \o <<"_">> \o pad4_from(c[2], 4)
            inv(c) ==
                LET m == inverse_index(c[1], build)
                    a == inverse_index(c[2], build)
                IN  IF m.res = "panic" \/ a.res = "panic"
                    THEN [res |-> "panic", name |-> << >>]
                    ELSE [res |-> IF m.res = "ok" /\ a.res = "ok"
                                  THEN "ok" ELSE "wrapped",
                          name |-> m.digits \o <<"_">> \o a.digits]
        IN  /\ ~px.called
            /\ px' = [called |-> TRUE, build |-> build, ctx |-> <<c1, c2>>,
                      prefix |-> <<fwd(c1), fwd(c2)>>,
                      prefix_inverse |-> <<inv(c1), inv(c2)>>]
            /\ UNCHANGED <<coordVars, lockVars, sch, rw, rt, rm, bt, tp>>

NextPrefix == CallPrefixes

\* The prefixes of pairs of contexts.
SpecPrefix == Init /\ [][NextPrefix]_vars

\* -------------------------------------------------------------- properties
NoReshapeObjects == {o \in objs : IsReshapeObj(o)} = {}

C2_RunFailureAborts ==
    /\ ~g.ranAfter
    /\ (g.mfail /\ g.ret.op = "migrate") =>
          /\ g.ret.res = "err"
          /\ dbState = Idle
          /\ NoReshapeObjects
          /\ log = g.callLog

\* C5: an abort invoked while the persisted state is Completing is refused
\* and changes nothing, and a complete invoked afterwards on the persisted
\* Completing state returns with the state Idle.
C5_NoAbortOnceCompleting ==
    /\ g.refused \notin {"begun", "accepted"}
    /\ (g.resume /\ g.ret.op = "complete") =>
          /\ g.ret.res = "ok"
          /\ dbState = Idle

\* The edges of the lifecycle.
Lifecycle ==
    { <<"idle", "applying">>, <<"applying", "in_progress">>,
      <<"applying", "aborting">>, <<"in_progress", "completing">>,
      <<"in_progress", "aborting">>, <<"completing", "idle">>,
      <<"aborting", "idle">> }

\* C6: the variant of the persisted state changes along the edges of the
\* lifecycle only, and complete_migration is refused while the state is
\* Aborting or Applying.
C6_LifecycleEdges ==
    [][/\ dbState'.tag # dbState.tag =>
              <<dbState.tag, dbState'.tag>> \in Lifecycle
       /\ (pc = "c_begin" /\ mem.tag \in {"aborting", "applying"}) =>
              /\ pc' = "idle"
              /\ g'.ret.res = "err"
              /\ dbState' = dbState]_vars

\* C7: when a complete that only crashes interrupted (no action failed) has
\* brought the state to Idle, the complete of every action of every
\* remaining migration has succeeded at least once.
C7_ResumedCompleteCompletesAll ==
    g.noErr => ~g.skippedC

\* C8: when an abort that only crashes interrupted has brought the state to
\* Idle, the abort of every action whose run had been executed has been
\* invoked at least once since.
C8_ResumedAbortAbortsAll ==
    g.noErr => ~g.skippedA

\* C9: after the process died while the state was Applying, migrate invoked
\* again with the same list runs every action again without a failure and
\* returns successfully.
C9_RerunSucceeds ==
    /\ ~g.rerunFailed
    /\ (g.recover /\ g.ret.op = "migrate") => g.ret.res = "ok"

\* C10: once complete or abort has returned successfully with the state
\* Idle, the public schema holds no column, trigger or function whose name
\* starts with __reshape, and after abort it is the schema the last
\* completed migration left.
C10_CleanedUp ==
    (pc = "idle" /\ g.ret.op \in {"complete", "abort"} /\ g.ret.res = "ok"
        /\ dbState = Idle) =>
          /\ NoReshapeObjects
          /\ g.ret.op = "abort" => objs = g.objs0

\* C11: the persisted state leaves Completing for Idle in the very step that
\* appends the migrations of the Completing state to the log, at the end of
\* the log and in order; the log changes in no other step; while the state is
\* Completing none of its migrations is in the log; and no name is in the log
\* twice. This holds through crashes at every point of complete.
C11_CompleteAtomic ==
    [][/\ (dbState.tag = "completing" /\ dbState'.tag # "completing") =>
            /\ dbState' = Idle
            /\ log' = log \o Names(dbState.migrations)
       /\ log' # log => (dbState.tag = "completing" /\ dbState' = Idle)
       /\ dbState'.tag = "completing" =>
            \A i \in 1..Len(dbState'.migrations) :
              \A k \in 1..Len(log') : log'[k] # dbState'.migrations[i].name
       /\ \A i, k \in 1..Len(log') : log'[i] = log'[k] => i = k]_vars

\* A complete that was interrupted by the death of the process has been
\* resumed and has logged two migrations after an earlier one.
C11_Witness ==
    /\ dbState = Idle
    /\ g.resume
    /\ g.ret = [op |-> "complete", res |-> "ok"]
    /\ log = <<"A", "B", "C">>

\* C12: whenever the persisted state is InProgress the schema of the last
\* remaining migration exists and so does the schema of the last completed
\* migration, if there is one; when complete brings the state to Idle the
\* previous schema is gone and the target schema is there; when abort brings
\* the state to Idle the target schema is gone and the previous one is there.
C12_Namespaces ==
    [][LET last(sq) == sq[Len(sq)]
           target == schema_name_for_migration(last(dbState.migrations).name)
           previous == schema_name_for_migration(last(log))
       IN  /\ dbState'.tag = "in_progress" =>
                /\ schema_name_for_migration(
                       last(dbState'.migrations).name) \in namespaces'
                /\ log' # << >> =>
                     schema_name_for_migration(last(log')) \in namespaces'
           /\ (dbState.tag = "completing" /\ dbState' = Idle) =>
                /\ target \in namespaces'
                /\ log # << >> => previous \notin namespaces'
           /\ (dbState.tag \in {"applying", "in_progress", "aborting"}
                 /\ dbState' = Idle) =>
                /\ target \notin namespaces'
                /\ log # << >> => previous \in namespaces']_vars

\* A second migration is in progress next to the completed first one.
C12_Witness ==
    /\ pc = "idle"
    /\ dbState.tag = "in_progress"
    /\ log = <<"A">>
    /\ namespaces = {schema_name_for_migration("A"),
                     schema_name_for_migration("C")}

\* C20 as stated: migrate invoked while the persisted state is InProgress or
\* Completing returns an error, runs no action, installs no helper and
\* leaves the persisted state unchanged.
C20_MigrateRejectedWithError ==
    [][g'.rejected =>
          /\ g'.ret = [op |-> "migrate", res |-> "err"]
          /\ UNCHANGED <<dbState, log, namespaces, helper, objs>>]_vars

\* C20 amended: migrate invoked while the persisted state is InProgress or
\* Completing returns successfully at once (it only prints the advice to
\* complete), runs no action, installs no helper and leaves the persisted
\* state, the log, the schemas and the public schema unchanged.
C20_MigrateDoesNothing ==
    [][g'.rejected =>
          /\ g'.ret = [op |-> "migrate", res |-> "ok"]
          /\ pc' = "idle"
          /\ UNCHANGED <<dbState, log, namespaces, helper, objs>>]_vars

\* migrate has returned from a call made while the state was Completing.
C20_Witness ==
    /\ g.rejected
    /\ g.ret.op = "migrate"
    /\ dbState.tag = "completing"

\* C13: once migrate has succeeded the schema of the migration holds exactly
\* one view for each live table of the new schema, under its current name,
\* and each view exposes exactly the live columns of the table, each under
\* its current name and backed by its last backing column, whatever the
\* actions of the migration are.
C13_ViewsAreTheNewSchema ==
    sch.phase = "in_progress" => sch.views = sch.logical

\* C14: no column of a view has a name that starts with __reshape_, and a
\* physical column with such a name is in a view only as the backing column
\* of a live column of the new schema, under the name of that column.
C14_NoReshapeNamesInViews ==
    sch.phase = "in_progress" =>
        \A v \in sch.views : \A c \in v.columns :
            /\ ~IsReshapeName(c.name)
            /\ IsReshapeName(c.real_name) =>
                 \E t \in sch.logical :
                     /\ t.real_name = v.real_name
                     /\ c \in t.columns

C18_RequestedNullability ==
    (/\ Len(rw.acts) = 1
     /\ rw.acts[1].kind = "alter_column"
     /\ rw.last.by # "none") =>
        LET column == PlainName(rw.acts[1].column)
            null == rw.last.inp[column] = Null
            rest == \A c \in DOMAIN rw.last.inp \ {column} :
                        rw.last.inp[c] # Null
        IN  /\ rw.acts[1].nullable = "false" =>
                 /\ (rw.last.by = "new" /\ null) => ~rw.last.ok
                 /\ (rw.phase = "aborted" /\ null /\ rest) => rw.last.ok
            /\ rw.acts[1].nullable = "true" =>
                 /\ (rw.last.by = "new" /\ null /\ rest) => rw.last.ok
                 /\ (rw.last.by = "old" /\ null) => ~rw.last.ok

C21_StoredMigrationsFixed ==
    [][dbState.tag # "idle" /\ dbState'.tag # "idle"
          => dbState'.migrations = dbState.migrations]_vars

\* C22: a call on a bare connection is attempted again only after an error
\* with SQLSTATE 55P03 or an error that is no database error, and it sleeps
\* once before every further attempt; another database error is handed to
\* the caller by the attempt that met it, with no sleep after it, so a call
\* whose first attempt meets one makes exactly one attempt and never
\* sleeps; a statement of a Transaction is executed exactly once.
C22_RetriedOnlyWhenRetryable ==
    /\ \A k \in 1..(Len(rt.outs) - 1) : rt.outs[k] \in {"55P03", "io"}
    /\ rt.conn = "bare" =>
          rt.waits = IF rt.pc = "loop" THEN Len(rt.outs)
                     ELSE Len(rt.outs) - 1
    /\ rt.pc = "loop" => rt.outs[Len(rt.outs)] \in {"55P03", "io"}
    /\ rt.conn = "bare" /\ rt.outs # << >> /\ rt.outs[1] = "23505" =>
          /\ rt.pc = "done" /\ rt.res = 1
          /\ Len(rt.outs) = 1 /\ rt.waits = 0
    /\ rt.conn = "tx" =>
          /\ rt.pc = "done" /\ rt.res = 1
          /\ Len(rt.outs) = 1 /\ rt.waits = 0

\* A call on a bare connection was retried after a lock timeout and after a
\* connection error, and then returned another database error.
C22_Witness ==
    /\ rt.conn = "bare" /\ rt.pc = "done"
    /\ rt.outs = <<"55P03", "io", "23505">>
    /\ rt.res = 3 /\ rt.waits = 2

\* C23: retry_automatically terminates: every iteration of its loop is one
\* more attempt and there are at most 10 attempts; it returns the first
\* success, with no attempt after it; when every attempt failed with a
\* retryable error there were exactly 10 attempts and the error handed to
\* the caller is the one of the last attempt.
C23_RetryTerminates ==
    /\ [](/\ Len(rt.outs) <= MAX_ATTEMPTS
          /\ rt.pc = "loop" =>
                /\ rt.attempts = Len(rt.outs)
                /\ rt.attempts < MAX_ATTEMPTS
          /\ \A k \in 1..Len(rt.outs) :
                rt.outs[k] = "ok" =>
                  /\ k = Len(rt.outs)
                  /\ rt.pc = "done" /\ rt.res = k
          /\ rt.pc = "done" =>
                /\ rt.res = Len(rt.outs)
                /\ (rt.conn = "bare"
                      /\ \A k \in 1..Len(rt.outs) :
                            rt.outs[k] \in {"55P03", "io"})
                     => Len(rt.outs) = MAX_ATTEMPTS)
    /\ [][rt.pc = "loop" =>
            /\ Len(rt'.outs) = Len(rt.outs) + 1
            /\ rt'.pc = "loop" => rt'.attempts = rt.attempts + 1]_vars

\* Ten attempts failed with retryable errors, the first one with another
\* error than the last one, and the call returned the last one.
C23_Witness ==
    /\ rt.conn = "bare" /\ rt.pc = "done"
    /\ Len(rt.outs) = MAX_ATTEMPTS
    /\ \A k \in 1..Len(rt.outs) : rt.outs[k] \in {"55P03", "io"}
    /\ rt.outs[1] = "io" /\ rt.outs[MAX_ATTEMPTS] = "55P03"
    /\ rt.res = MAX_ATTEMPTS /\ rt.waits = MAX_ATTEMPTS - 1

\* C24: remaining_migrations compares the logged names, by ascending index
\* and every logged row once, whatever the length of the log, with the
\* first names of the new list; it fails when a logged name is not the new
\* name at its position or when the log is longer than the new list, and
\* returns the new migrations after the logged ones otherwise.
C24_RemainingAfterLoggedPrefix ==
    rm.called =>
        LET n == Len(rm.rows)
            \* the name logged with index k
            logged(k) == rm.rows[CHOOSE q \in 1..n : rm.rows[q][1] = k][2]
            agree == /\ n <= Len(rm.new)
                     /\ \A k \in 1..n : logged(k) = rm.new[k].name
        IN  /\ rm.out.ok = agree
            /\ agree => rm.out.migs = SubSeq(rm.new, n + 1, Len(rm.new))

\* C25: when remove has returned successfully, from whatever persisted
\* state, neither the schema of the current migration nor the one of the
\* target migration exists, the public schema holds no table, and the
\* metadata is gone: the next load gives Idle and an empty log.
C25_RemoveLeavesNothing ==
    g.ret = [op |-> "remove", res |-> "ok"] =>
        /\ g.removed.ns \cap namespaces = {}
        /\ {o \in objs : o.kind = "table"} = {}
        /\ dbState = Idle /\ log = << >>
        /\ mem = Idle /\ cur = None

\* C26: complete and abort are idempotent for every kind of action: where
\* the coordinator is about to complete (abort) an action and the call
\* succeeds, a second call right after it succeeds as well and leaves the
\* public schema as the first call left it; for alter_column the second
\* complete neither fails nor drops the column the first one put in place.
C26_CompleteAndAbortIdempotent ==
    /\ pc = "c_loop" /\ CompleteTodo(loc) # {} =>
          LET k == CHOOSE x \in CompleteTodo(loc) :
                       \A y \in CompleteTodo(loc) : x <= y
              p == Positions(loc.rem)[k]
              stmts == CompleteStmts(ActionAt(loc.rem, p), p[1], p[2])
              once == ExecK(stmts, objs, Len(stmts))
          IN  Done(stmts, objs) = Len(stmts) =>
                /\ Done(stmts, once) = Len(stmts)
                /\ ExecK(stmts, once, Len(stmts)) = once
    /\ pc = "a_loop" /\ AbortTodo(loc) # {} =>
          LET k == CHOOSE x \in AbortTodo(loc) :
                       \A y \in AbortTodo(loc) : x >= y
              p == Positions(loc.rem)[k]
              stmts == AbortStmts(ActionAt(loc.rem, p), p[1], p[2])
              once == ExecK(stmts, objs, Len(stmts))
          IN  Done(stmts, objs) = Len(stmts) =>
                /\ Done(stmts, once) = Len(stmts)
                /\ ExecK(stmts, once, Len(stmts)) = once

\* C27: within one call, run and complete are invoked on the actions in the
\* order they are declared in, abort in the reverse order; update_schema is
\* applied to the new schema after a run that succeeded and before the next
\* run, never after a run that failed: whenever migrate is about to run an
\* action or has left its loops, the new schema holds exactly the actions
\* whose run succeeded, in order.
C27_DeclaredOrder ==
    LET Before(x, y) == x[1] < y[1] \/ (x[1] = y[1] /\ x[2] < y[2])
        n == Len(g.calls)
        ranOk == SelectSeq(g.calls, LAMBDA c : c[1] = "run" /\ c[3])
    IN  /\ \A i \in 1..n : \A j \in (i + 1)..n :
              g.calls[i][1] = g.calls[j][1] =>
                  IF g.calls[i][1] = "abort"
                  THEN Before(g.calls[j][2], g.calls[i][2])
                  ELSE Before(g.calls[i][2], g.calls[j][2])
        /\ pc \in {"m_run", "m_after", "m_save"} =>
              loc.new_schema = [i \in 1..Len(ranOk) |-> ranOk[i][2]]

\* migrate ran two actions, the second one failed, and its abort has
\* aborted both, the second one first.
C27_Witness ==
    /\ g.calls = << <<"run", <<0, 0>>, TRUE>>, <<"run", <<0, 1>>, FALSE>>,
                    <<"abort", <<0, 1>>, TRUE>>,
                    <<"abort", <<0, 0>>, TRUE>> >>
    /\ loc.new_schema = << <<0, 0>> >>

\* C28: the state of an operation is persisted before its first effect:
\* Applying before a helper is installed or an action run, Completing
\* before the schema of the previous migration is dropped or an action
\* completed, Aborting before the schema of the target migration is dropped
\* or an action aborted, the abort that migrate starts after a failed run
\* included.
C28_PersistedBeforeEffects ==
    /\ pc \in {"m_helpers", "m_run"} =>
          dbState = applying(loc.rem)
    /\ pc = "c_drop" \/ (pc = "c_loop" /\ CompleteTodo(loc) # {}) =>
          dbState.tag = "completing" /\ dbState.migrations = loc.rem
    /\ pc = "a_drop" \/ (pc = "a_loop" /\ AbortTodo(loc) # {}) =>
          dbState.tag = "aborting" /\ dbState.migrations = loc.rem

\* C29: when the complete of an action has failed, the Completing position,
\* the persisted one and the one of the instance, has not moved past that
\* action: the next complete, by a new process or by the same instance,
\* completes the failed action first.
C29_FailedCompleteIsRetried ==
    LET n == Len(g.calls)
        p == g.calls[n][2]
        \* the actions a complete that starts at (i, j) completes
        todo(i, j) == {q \in PosSet(dbState.migrations) :
                          ~CompleteSkips(q, i, j)}
        first(i, j) == \A q \in todo(i, j) :
                          q[1] > p[1] \/ (q[1] = p[1] /\ q[2] >= p[2])
    IN  (/\ pc = "idle" /\ n > 0 /\ g.ret.res = "err"
         /\ g.calls[n][1] = "complete" /\ ~g.calls[n][3])
        => /\ dbState.tag = "completing"
           /\ p \in todo(dbState.i, dbState.j)
           /\ first(dbState.i, dbState.j)
           /\ mem.tag = "completing"
           /\ p \in todo(mem.i, mem.j)
           /\ first(mem.i, mem.j)

\* C30: the complete of an action that returns a transaction (add_column)
\* commits its statements together with the advance of the persisted
\* Completing position, both or none; over the completes of one migration,
\* resumed ones included, those statements take effect exactly once: never
\* for an action they took effect for already, and for every such action by
\* the time the state goes from Completing to Idle.
C30_TransactionalCompleteOnce ==
    [][/\ (/\ pc = "c_loop" /\ CompleteTodo(loc) # {}
           /\ LET k == CHOOSE x \in CompleteTodo(loc) :
                           \A y \in CompleteTodo(loc) : x <= y
                  q == Positions(loc.rem)[k]
              IN  ReturnsTransaction(ActionAt(loc.rem, q)))
          => LET k == CHOOSE x \in CompleteTodo(loc) :
                          \A y \in CompleteTodo(loc) : x <= y
                 q == Positions(loc.rem)[k]
             IN  /\ (objs' # objs) <=> (dbState' # dbState)
                 /\ dbState' # dbState =>
                       /\ q \notin g.done
                       /\ dbState' = completing(loc.rem, q[1] + 1, q[2] + 1)
       /\ (dbState.tag = "completing" /\ dbState'.tag = "idle")
          => \A q \in PosSet(dbState.migrations) :
                ReturnsTransaction(ActionAt(dbState.migrations, q))
                    => q \in g.done]_vars

\* C31: when abort has just left its match on the status, the Aborting state
\* the database holds carries the upper bounds the running call uses: an
\* abort that began from InProgress or Applying has persisted
\* (usize::MAX, usize::MAX), so that an abort resumed from the persisted
\* state skips no action.
C31_AbortPersistsUpperBounds ==
    (pc = "a_drop" /\ dbState.tag = "aborting") =>
        /\ dbState.i = loc.upM
        /\ dbState.j = loc.upA

\* C32: every trigger an action created and has not yet dropped calls the
\* helper function set_up_helpers installed, and that function exists in
\* schema reshape, so a client write to the table does not fail on a
\* missing helper.
C32_TriggerHelpersExist ==
    \A o \in objs :
        o.kind = "trigger" =>
            /\ trigger_helper(o.name) = helper_function
            /\ helper

\* C33: whenever complete or abort reaches tear_down_helpers, also when it
\* was invoked again after the process died between the teardown and the
\* save of Idle, or on an Applying state saved before the helper was
\* installed, the teardown does not fail: the operation goes on to persist
\* Idle instead of returning an error with the state left as it was.
C33_TearDownDoesNotWedge ==
    /\ (pc = "a_loop" /\ AbortTodo(loc) = {}) => helper
    /\ (pc = "c_loop" /\ CompleteTodo(loc) = {}) => helper

C35_BatchesAdvance ==
    /\ Len(bt.batch) <= BATCH_SIZE
    /\ bt.batch # << >> =>
           bt.cursor = <<bt.table[bt.batch[Len(bt.batch)]]>>
    /\ bt.previous # << >> => RowGreater(bt.cursor[1], bt.previous[1])
    /\ bt.twice = {}
    /\ (bt.pc = "done") = (bt.batches > 0 /\ bt.batch = << >>)
    /\ bt.batches <= Len(bt.table) + 1

\* C36: the sleep before the k-th retry of retry_automatically, k = 1..9,
\* is the wait min(3200, 100 * 2^(k-1)) milliseconds, that is 100, 200,
\* 400, 800, 1600, 3200, 3200, 3200, 3200, plus a jitter from 0 to less
\* than half the wait, so that it lies in [wait, 1.5 * wait); the product
\* stays far below 2^64.
C36_BackoffSchedule ==
    rt.waits >= 1 =>
        LET k == rt.waits
            wait == <<100, 200, 400, 800, 1600, 3200, 3200, 3200, 3200>>
        IN  /\ k \in 1..(MAX_ATTEMPTS - 1)
            /\ wait[k] = IF 100 * 2 ^ (k - 1) < 3200
                         THEN 100 * 2 ^ (k - 1) ELSE 3200
            /\ rt.slept >= wait[k]
            /\ 2 * rt.slept < 3 * wait[k]
            /\ 2 * (rt.slept - wait[k]) < wait[k]
            /\ STARTING_WAIT_TIME * 2 ^ (k - 1) < 2 ^ 30

\* The ninth retry slept the largest wait with the largest jitter.
C36_Witness ==
    /\ rt.waits = MAX_ATTEMPTS - 1
    /\ rt.slept = MAX_WAIT_TIME + (MAX_WAIT_TIME \div 2) - 1

\* C37: with an update-form transformation of add_column or remove_column,
\* the UPDATE that the trigger of the other table issues does not make the
\* reverse trigger compute, and leaves reshape.disable_triggers other than
\* 'TRUE'; a write of a client to the changed table from the schema the
\* reverse trigger is for makes it compute the column, in every session.
C37_ReverseTriggerOnClientWritesOnly ==
    LET s == tp.last.session
        matching == IF tp.kind = "add_column"
                    THEN ~is_new_schema(tp.search_path[s])
                    ELSE is_new_schema(tp.search_path[s])
    IN  /\ (tp.last.op = "from" /\ tp.last.forward) =>
              /\ ~tp.last.reverse
              /\ tp.column = <<tp.from_value>>
              /\ tp.setting[s] # <<"TRUE">>
        /\ (tp.last.op = "changed" /\ matching) =>
              /\ tp.last.reverse
              /\ tp.column = <<tp.from_value>>

\* C38: a migration whose one action is an alter_column that sets
\* changes.name: while it is in progress the view of the new schema exposes
\* the column under the new name only, backed by the column itself when
\* the name is the only change and by the temporary column otherwise, and
\* the column of the old schema is still there under the old name; when the
\* name is the only change, run and abort change nothing in the tables
\* (seen on the first migration, whose tables before it are known);
\* complete leaves the physical column under the new name.
C38_RenamedColumnExposed ==
    (/\ Len(sch.acts) = 1
     /\ sch.acts[1].kind = "alter_column"
     /\ sch.acts[1].new_name # "") =>
        LET act == sch.acts[1]
            old == PlainName(act.column)
            new == PlainName(act.new_name)
            cols == UNION {t.cols : t \in {u \in sch.D.tables :
                                                u.name = act.table}}
            shown == UNION {v.columns : v \in {w \in sch.views :
                                                   w.name = act.table}}
        IN  /\ sch.phase = "in_progress" =>
                  /\ \E c \in shown :
                        /\ c.name = new
                        /\ c.real_name = IF can_short_circuit(act) THEN old
                                         ELSE temp_column_name(act, 0)
                  /\ ~\E c \in shown : c.name = old
                  /\ old \in cols
            /\ (can_short_circuit(act) /\ sch.n = 1
                  /\ \/ sch.phase \in {"applying", "in_progress"}
                     \/ sch.phase = "idle" /\ sch.last = "abort") =>
                  sch.D.tables = sch.before.tables
            /\ (sch.phase = "idle" /\ sch.last = "complete") =>
                  new \in cols /\ old \notin cols

\* C39: for every pair of indices prefix and prefix_inverse are well
\* defined, 1000 - index never going below zero, and each gives different
\* names to different pairs of indices.
C39_PrefixesWellDefinedInjective ==
    px.called =>
        /\ \A k \in 1..2 : px.prefix_inverse[k].res = "ok"
        /\ px.ctx[1] # px.ctx[2] =>
              /\ px.prefix[1] # px.prefix[2]
              /\ px.prefix_inverse[1].name # px.prefix_inverse[2].name

\* C40: complete and abort decide on the state persisted at the time they
\* run: complete starts completing only when the persisted status is
\* InProgress or Completing, and an abort the caller asked for starts
\* aborting only when the persisted status is InProgress, Applying or
\* Aborting, whatever another coordinator did since this one loaded the
\* state.
C40_DecidesOnPersistedState ==
    [][/\ (pc = "c_begin" /\ pc' = "c_drop")
            => dbState.tag \in {"in_progress", "completing"}
       /\ (pc = "a_begin" /\ pc' = "a_drop" /\ loc.caller # "migrate")
            => dbState.tag \in {"in_progress", "applying", "aborting"}]_vars

\* C3: every database access of an operation of the coordinator happens
\* while its session holds the advisory lock, so operations of two
\* coordinators never interleave; at most one session is inside lock(f),
\* and a session that finds the lock taken is refused at once.
C3_OperationsUnderLock ==
    /\ \A s \in Sessions : sess[s].pc = "op" => lockHolder = s
    /\ Cardinality({s \in Sessions : sess[s].pc = "op"}) <= 1
    /\ Cardinality({s \in Sessions : sess[s].pc \in {"in", "ran"}}) <= 1
    /\ \A s \in Sessions : sess[s].pc \in {"in", "ran"} => lockHolder = s

====
